---- MODULE Spec2Model ----
(***************************************************************************)
(* A model of the tb snapshot tool (src/src/tb): the Snapshot Builder      *)
(* (snapshot.py), the report helpers (summarize.py), the Redactor          *)
(* (redact.py), the Diff Engine (diff.py) and the snapshot store           *)
(* (storage.py).                                                           *)
(*                                                                         *)
(* Representation of Python values                                         *)
(*   Optional[T]   : None is <<>>, a value v is <<v>> (Some(v))            *)
(*   str           : a sequence of one-character strings; identifiers     *)
(*                   that the code only compares for equality are TLA+     *)
(*                   strings                                               *)
(*   date          : its proleptic ordinal, an integer                     *)
(*   a due string  : a record [fmt, day] naming the ISO shape of the text  *)
(*                   and, for ISO texts, the date it denotes               *)
(***************************************************************************)
EXTENDS Integers, Sequences, FiniteSets, TLC

VARIABLES
  fs,      \* the snapshot store: directory key -> (file name -> content)
  today,   \* date.today(), as an ordinal
  clock,   \* the wall clock: the minute of datetime.now()
  runs,    \* how many times run_snapshot has been invoked
  call,    \* the operation in progress and its arguments
  ret      \* what the last finished operation returned

vars == <<fs, today, clock, runs, call, ret>>

(***************************************************************************)
(* Optional values and truthiness                                          *)
(***************************************************************************)
None == <<>>
Some(v) == <<v>>
IsNone(o) == o = <<>>
Get(o) == o[1]

\* Python truthiness of an Optional[str]: None and "" are falsy.
TruthyStr(o) == o # None /\ Get(o) # <<>>

Idle == [fn |-> "idle", args |-> <<>>]
NoRet == [fn |-> "none"]

(***************************************************************************)
(* Sequence helpers                                                        *)
(***************************************************************************)
Range(s) == {s[i] : i \in DOMAIN s}

RECURSIVE SelectSeqBy(_, _)
\* [x for x in s if keep[x]] with keep a set of positions of s
SelectSeqBy(s, keep) ==
  IF s = <<>> THEN <<>>
  ELSE LET n == Len(s)
           front == SelectSeqBy(SubSeq(s, 1, n - 1), keep)
       IN IF n \in keep THEN Append(front, s[n]) ELSE front

\* all sequences over S of length at most n
SeqsUpTo(S, n) == UNION {[1..k -> S] : k \in 0..n}

(***************************************************************************)
(* Strings: str.lower() and the order sorted() puts strings in             *)
(***************************************************************************)
UpperCase == <<"A", "B", "C", "D", "E", "F", "G", "H", "I", "J", "K", "L", "M",
               "N", "O", "P", "Q", "R", "S", "T", "U", "V", "W", "X", "Y", "Z">>
LowerCase == <<"a", "b", "c", "d", "e", "f", "g", "h", "i", "j", "k", "l", "m",
               "n", "o", "p", "q", "r", "s", "t", "u", "v", "w", "x", "y", "z">>
Digits == <<"0", "1", "2", "3", "4", "5", "6", "7", "8", "9">>

\* the characters of the model in code-point order
Alphabet ==
  <<" ", "%", "(", ")", "+", "-", ".", "/">> \o Digits \o <<":", "@">> \o UpperCase
    \o <<"[", "]", "_">> \o LowerCase

CharOrd(c) == CHOOSE i \in DOMAIN Alphabet : Alphabet[i] = c

\* str.lower() of one character
LowerChar(c) ==
  IF c \in Range(UpperCase)
  THEN LowerCase[CHOOSE i \in DOMAIN UpperCase : UpperCase[i] = c]
  ELSE c

\* str.lower()
lower(str) == [i \in DOMAIN str |-> LowerChar(str[i])]

RECURSIVE StrLess(_, _)
\* a < b for Python strings: by code point, a proper prefix first
StrLess(a, b) ==
  IF b = <<>> THEN FALSE
  ELSE IF a = <<>> THEN TRUE
  ELSE IF a[1] # b[1] THEN CharOrd(a[1]) < CharOrd(b[1])
  ELSE StrLess(Tail(a), Tail(b))

RECURSIVE SortedStrings(_)
\* sorted(set of strings)
SortedStrings(S) ==
  IF S = {} THEN <<>>
  ELSE LET least == CHOOSE x \in S : \A y \in S \ {x} : StrLess(x, y)
       IN <<least>> \o SortedStrings(S \ {least})

(***************************************************************************)
(* Due strings and ISO parsing                                             *)
(***************************************************************************)
\* models.py DueInfo: four optional strings.  A date or datetime string is
\* [fmt |-> "empty"]          the empty string
\* [fmt |-> "date"]           YYYY-MM-DD text of the date with ordinal day
\* [fmt |-> "datetime"]       YYYY-MM-DDTHH:MM:SS text on the date day
\* [fmt |-> "other"]          any other non-empty text
DueText(fmt, day) == [fmt |-> fmt, day |-> day]
EmptyText == DueText("empty", 0)
OtherText == DueText("other", 0)
IsoDate(d) == DueText("date", d)
IsoDateTime(d) == DueText("datetime", d)

DueInfo(date, datetime, timezone, string) ==
  [date |-> date, datetime |-> datetime, timezone |-> timezone, string |-> string]

\* truthiness of an Optional due string
TruthyText(o) == o # None /\ Get(o).fmt # "empty"

\* date.fromisoformat(text): the date, or None for ValueError.  Only a
\* date-shaped text parses; a date-time text is rejected.
date_fromisoformat(text) ==
  IF text.fmt = "date" THEN Some(text.day) ELSE None

\* datetime.fromisoformat(text).date(): the date part, or None for
\* ValueError.  A date-only text parses as midnight of that date.
datetime_fromisoformat_date(text) ==
  IF text.fmt \in {"date", "datetime"} THEN Some(text.day) ELSE None

(***************************************************************************)
(* Tasks (models.py TaskNormalized) and the three copies of parseDue       *)
(***************************************************************************)
\* "(No Project)": the name under which tasks without a project are grouped
NO_PROJECT == <<"(", "N", "o", " ", "P", "r", "o", "j", "e", "c", "t", ")">>

TaskNormalized(id, content, description, project_id, project_name, labels, priority_api, due, created_at, url) ==
  [id |-> id, content |-> content, description |-> description,
   project_id |-> project_id, project_name |-> project_name,
   labels |-> labels, priority_api |-> priority_api, due |-> due,
   created_at |-> created_at, url |-> url]

\* task.project_name or "(No Project)"
ProjectNameOrSentinel(task) ==
  IF TruthyStr(task.project_name) THEN Get(task.project_name) ELSE NO_PROJECT

\* summarize.py _parse_due: Optional[date]
summarize_parse_due_mutant(task) ==
  IF task.due = None THEN None
  ELSE IF TruthyText(Get(task.due).date)
          /\ date_fromisoformat(Get(Get(task.due).date)) # None
       THEN date_fromisoformat(Get(Get(task.due).date))
  ELSE IF TruthyText(Get(task.due).datetime)
       THEN datetime_fromisoformat_date(Get(Get(task.due).datetime))
  ELSE None
summarize_parse_due(task) ==
  IF task.due = None THEN None
  ELSE IF TruthyText(Get(task.due).date)
       THEN date_fromisoformat(Get(Get(task.due).date))
  ELSE IF TruthyText(Get(task.due).datetime)
       THEN datetime_fromisoformat_date(Get(Get(task.due).datetime))
  ELSE None

\* diff.py _parse_due: Optional[date]
diff_parse_due(task) ==
  IF task.due = None THEN None
  ELSE LET due == Get(task.due) IN
       IF TruthyText(due.date) THEN date_fromisoformat(Get(due.date))
       ELSE IF TruthyText(due.datetime)
            THEN datetime_fromisoformat_date(Get(due.datetime))
            ELSE None

\* snapshot.py _within_due_window, lines 97-111: the target date the window
\* test compares, or None where the function returns False before comparing
within_due_window_target(task) ==
  IF task.due = None THEN None
  ELSE LET due == Get(task.due)
           target_date ==
             IF TruthyText(due.date) THEN date_fromisoformat(Get(due.date))
             ELSE IF TruthyText(due.datetime)
                  THEN datetime_fromisoformat_date(Get(due.datetime))
                  ELSE None
       IN target_date

\* snapshot.py _within_due_window(task, days) with date.today() = now
within_due_window(task, days, now) ==
  LET target_date == within_due_window_target(task)
  IN IF target_date = None THEN FALSE ELSE Get(target_date) <= now + days

(***************************************************************************)
(* Redactor (redact.py).  A regular expression is a tree; Ends gives the   *)
(* positions where a match starting at pos can end, in the order in which  *)
(* the backtracking matcher of re tries them, so the first is the match.   *)
(***************************************************************************)
Chr(set) == [op |-> "set", set |-> set]
Lit(c) == Chr({c})
Cat(parts) == [op |-> "cat", parts |-> parts]
\* greedy r{min,max}; max = -1 for no upper limit
Rep(r, min, max) == [op |-> "rep", r |-> r, min |-> min, max |-> max]
WordBoundary == [op |-> "b"]

Letters == Range(UpperCase) \cup Range(LowerCase)
\* \d, \s, \S and \w over the characters of the model
DigitChars == Range(Digits)
SpaceChars == {" "}
NonSpaceChars == Range(Alphabet) \ SpaceChars
WordChars == Letters \cup DigitChars \cup {"_"}

\* \b at pos: exactly one of the characters around pos is a word character
IsWordBoundary(str, pos) ==
  (pos > 0 /\ str[pos] \in WordChars) # (pos < Len(str) /\ str[pos + 1] \in WordChars)

RECURSIVE Ends(_, _, _)
RECURSIVE EndsAll(_, _, _)
\* the ends of re from each of the starts, in order
EndsAll(re, str, starts) ==
  IF starts = <<>> THEN <<>>
  ELSE Ends(re, str, Head(starts)) \o EndsAll(re, str, Tail(starts))

Ends(re, str, pos) ==
  CASE re.op = "set" ->
         IF pos < Len(str) /\ str[pos + 1] \in re.set THEN <<pos + 1>> ELSE <<>>
    [] re.op = "b" ->
         IF IsWordBoundary(str, pos) THEN <<pos>> ELSE <<>>
    [] re.op = "cat" ->
         IF re.parts = <<>> THEN <<pos>>
         ELSE EndsAll(Cat(Tail(re.parts)), str, Ends(Head(re.parts), str, pos))
    [] re.op = "rep" ->
         (IF re.max = 0 THEN <<>>
          ELSE EndsAll(Rep(re.r, IF re.min > 0 THEN re.min - 1 ELSE 0,
                           IF re.max > 0 THEN re.max - 1 ELSE re.max),
                       str, Ends(re.r, str, pos)))
         \o (IF re.min = 0 THEN <<pos>> ELSE <<>>)

\* pattern.search(str, pos): the leftmost match at or after pos, or None
re_search(re, str, pos) ==
  LET starts == {p \in pos..Len(str) : Ends(re, str, p) # <<>>}
  IN IF starts = {} THEN None
     ELSE LET start == CHOOSE p \in starts : \A q \in starts : p <= q
          IN Some([start |-> start, end |-> Head(Ends(re, str, start))])

RECURSIVE re_sub_from(_, _, _, _)
re_sub_from(re, repl, str, pos) ==
  LET m == re_search(re, str, pos)
  IN IF m = None THEN SubSeq(str, pos + 1, Len(str))
     ELSE SubSeq(str, pos + 1, Get(m).start) \o repl
            \o re_sub_from(re, repl, str, Get(m).end)

\* pattern.sub(repl, str) for a pattern that matches no empty text
re_sub(re, repl, str) == re_sub_from(re, repl, str, 0)

\* [A-Za-z0-9._%+-]+@[A-Za-z0-9.-]+\.[A-Za-z]{2,}
EMAIL_RE ==
  Cat(<<Rep(Chr(Letters \cup DigitChars \cup {".", "_", "%", "+", "-"}), 1, -1),
        Lit("@"),
        Rep(Chr(Letters \cup DigitChars \cup {".", "-"}), 1, -1),
        Lit("."),
        Rep(Chr(Letters), 2, -1)>>)

\* (?:(?:\+?\d{1,3}[\s-]?)?(?:\(\d{2,4}\)[\s-]?)?\d{3,4}[\s-]?\d{3,4})
PHONE_RE ==
  LET sep == Rep(Chr(SpaceChars \cup {"-"}), 0, 1)
  IN Cat(<<Rep(Cat(<<Rep(Lit("+"), 0, 1), Rep(Chr(DigitChars), 1, 3), sep>>), 0, 1),
           Rep(Cat(<<Lit("("), Rep(Chr(DigitChars), 2, 4), Lit(")"), sep>>), 0, 1),
           Rep(Chr(DigitChars), 3, 4),
           sep,
           Rep(Chr(DigitChars), 3, 4)>>)

\* \b\d{8,}\b
LONG_NUMBER_RE == Cat(<<WordBoundary, Rep(Chr(DigitChars), 8, -1), WordBoundary>>)

\* https?://\S+
URL_RE ==
  Cat(<<Lit("h"), Lit("t"), Lit("t"), Lit("p"), Rep(Lit("s"), 0, 1),
        Lit(":"), Lit("/"), Lit("/"), Rep(Chr(NonSpaceChars), 1, -1)>>)

REDACTED_EMAIL == <<"[", "R", "E", "D", "A", "C", "T", "E", "D", "_", "E", "M", "A", "I", "L", "]">>
REDACTED_PHONE_mutant == <<"[", "5", "5", "5", "-", "1", "2", "3", "4", "]">>
REDACTED_PHONE == <<"[", "R", "E", "D", "A", "C", "T", "E", "D", "_", "P", "H", "O", "N", "E", "]">>
REDACTED_NUMBER == <<"[", "R", "E", "D", "A", "C", "T", "E", "D", "_", "N", "U", "M", "B", "E", "R", "]">>
REDACTED_URL == <<"[", "R", "E", "D", "A", "C", "T", "E", "D", "_", "U", "R", "L", "]">>

\* redact.py redact_text(text, redact_urls)
redact_text(text, redact_urls) ==
  IF text = <<>> THEN text
  ELSE LET r1 == re_sub(EMAIL_RE, REDACTED_EMAIL, text)
           r2 == re_sub(PHONE_RE, REDACTED_PHONE, r1)
           r3 == re_sub(LONG_NUMBER_RE, REDACTED_NUMBER, r2)
       IN IF redact_urls THEN re_sub(URL_RE, REDACTED_URL, r3) ELSE r3

(***************************************************************************)
(* Normalizer and Filter (snapshot.py)                                     *)
(***************************************************************************)
\* A raw API task is a record of Optional values, None for a key that is
\* missing or null; its due object is a dict: a function from the keys it
\* holds to Optional strings.  Identifiers are given by their str() text.
RawTask(id, content, project_id, labels, due) ==
  [id |-> id, content |-> content, description |-> None, project_id |-> project_id,
   labels |-> labels, priority |-> None, due |-> due, created_at |-> None, url |-> None]

\* dict.get(key)
DictGet(dict, key) == IF key \in DOMAIN dict THEN dict[key] ELSE None

\* project_lookup.get(key): Optional[str]
LookupGet(lookup, key) == IF key \in DOMAIN lookup THEN Some(lookup[key]) ELSE None

\* str(x) of an Optional identifier
PyStr(o) == IF o = None THEN "None" ELSE Get(o)

\* snapshot.py lines 41-49: due_info
normalize_due(raw_due) ==
  LET due == IF raw_due = None THEN <<>> ELSE Get(raw_due)
  IN IF DOMAIN due = {} THEN None
     ELSE Some(DueInfo(DictGet(due, "date"), DictGet(due, "datetime"),
                       DictGet(due, "timezone"), DictGet(due, "string")))

\* snapshot.py _normalize_task(raw, project_lookup)
normalize_task(raw, project_lookup) ==
  TaskNormalized(PyStr(raw.id),
                 IF TruthyStr(raw.content) THEN Get(raw.content) ELSE <<>>,
                 raw.description,
                 IF TruthyStr(raw.project_id) THEN raw.project_id ELSE None,
                 IF TruthyStr(raw.project_id)
                 THEN LookupGet(project_lookup, Get(raw.project_id)) ELSE None,
                 IF raw.labels = None THEN <<>> ELSE Get(raw.labels),
                 IF raw.priority = None THEN 1 ELSE Get(raw.priority),
                 normalize_due(raw.due),
                 raw.created_at, raw.url)

\* snapshot.py _matches_project(task, names_or_ids)
matches_project(task, names_or_ids) ==
  IF names_or_ids = <<>> THEN TRUE
  ELSE LET normalized == {lower(item) : item \in Range(names_or_ids)}
       IN \/ TruthyStr(task.project_id) /\ Get(task.project_id) \in normalized
          \/ TruthyStr(task.project_name) /\ lower(Get(task.project_name)) \in normalized

\* snapshot.py _matches_labels(task, labels)
matches_labels(task, labels) ==
  IF labels = <<>> THEN TRUE
  ELSE LET normalized == {lower(label) : label \in Range(labels)}
       IN \E i \in DOMAIN task.labels : lower(task.labels[i]) \in normalized

SnapshotFilters(include_projects, exclude_projects, include_labels, exclude_labels, due_window_days) ==
  [include_projects |-> include_projects, exclude_projects |-> exclude_projects,
   include_labels |-> include_labels, exclude_labels |-> exclude_labels,
   due_window_days |-> due_window_days]

\* snapshot.py lines 128-143: the four filters, in order
apply_filters(normalized_tasks, filters) ==
  LET t1 == IF filters.include_projects # <<>>
            THEN SelectSeqBy(normalized_tasks,
                   {i \in DOMAIN normalized_tasks :
                      matches_project(normalized_tasks[i], filters.include_projects)})
            ELSE normalized_tasks
      t2 == IF filters.exclude_projects # <<>>
            THEN SelectSeqBy(t1, {i \in DOMAIN t1 :
                                    ~matches_project(t1[i], filters.exclude_projects)})
            ELSE t1
      t3 == IF filters.include_labels # <<>>
            THEN SelectSeqBy(t2, {i \in DOMAIN t2 :
                                    matches_labels(t2[i], filters.include_labels)})
            ELSE t2
      t4 == IF filters.exclude_labels # <<>>
            THEN SelectSeqBy(t3, {i \in DOMAIN t3 :
                                    ~matches_labels(t3[i], filters.exclude_labels)})
            ELSE t3
  IN t4

Project(id, name) == [id |-> id, name |-> name]
Label(id, name) == [id |-> id, name |-> name]

\* {project.id: project.name for project in project_models}: a later project
\* with the same id replaces an earlier one
ProjectLookup(project_models) ==
  [id \in {project_models[i].id : i \in DOMAIN project_models} |->
     project_models[CHOOSE i \in DOMAIN project_models :
                      /\ project_models[i].id = id
                      /\ \A j \in DOMAIN project_models :
                           project_models[j].id = id => j <= i].name]

W_INFERRED == "Labels endpoint unavailable; inferred labels from tasks."
W_LABELS == "Labels endpoint unavailable: <exc>"

\* snapshot.py _apply_redaction(task)
apply_redaction(task) ==
  [task EXCEPT !.content = redact_text(task.content, TRUE),
               !.description = IF TruthyStr(task.description)
                               THEN Some(redact_text(Get(task.description), TRUE))
                               ELSE task.description]

\* snapshot.py lines 148-153: the label models and the warnings
inferred_labels_mutant(normalized_tasks) ==
  [i \in {} |-> Label(None, <<>>)]
inferred_labels(normalized_tasks) ==
  LET inferred == SortedStrings(UNION {Range(normalized_tasks[i].labels) :
                                         i \in DOMAIN normalized_tasks})
  IN [i \in DOMAIN inferred |-> Label(None, inferred[i])]

\* snapshot.py build_snapshot_from_data(tasks, projects, labels, redacted, filters);
\* labels is None when the labels endpoint was unavailable
build_snapshot_from_data(tasks, projects, labels, redacted, filters) ==
  LET project_models == [i \in DOMAIN projects |-> Project(projects[i].id, projects[i].name)]
      project_lookup == ProjectLookup(project_models)
      filtered ==
        apply_filters([i \in DOMAIN tasks |-> normalize_task(tasks[i], project_lookup)],
                      filters)
      normalized_tasks ==
        IF redacted THEN [i \in DOMAIN filtered |-> apply_redaction(filtered[i])]
        ELSE filtered
  IN [tasks |-> normalized_tasks,
      projects |-> project_models,
      labels |-> IF labels = None THEN inferred_labels(normalized_tasks)
                 ELSE [i \in DOMAIN Get(labels) |->
                         Label(IF TruthyStr(Get(labels)[i].id) THEN Get(labels)[i].id ELSE None,
                               Get(labels)[i].name)],
      warnings |-> IF labels = None THEN <<W_INFERRED>> ELSE <<>>]

(***************************************************************************)
(* The snapshot store (storage.py) and the Diff Engine (diff.py)           *)
(***************************************************************************)
\* read_json(dir / name) on the store: the content, or None when the file does not exist
\* (FileNotFoundError)
read_json(store, dir, name) ==
  IF dir \in DOMAIN store /\ name \in DOMAIN store[dir] THEN Some(store[dir][name]) ELSE None

\* TaskNormalized.model_dump() / model_validate(): the JSON object of a task
\* and the task of a JSON object, field by field
model_dump(task) ==
  [id |-> task.id, content |-> task.content, description |-> task.description,
   project_id |-> task.project_id, project_name |-> task.project_name,
   labels |-> task.labels, priority_api |-> task.priority_api,
   due |-> IF task.due = None THEN None
           ELSE Some([date |-> Get(task.due).date, datetime |-> Get(task.due).datetime,
                      timezone |-> Get(task.due).timezone, string |-> Get(task.due).string]),
   created_at |-> task.created_at, url |-> task.url]

model_validate(item) ==
  TaskNormalized(item.id, item.content, item.description, item.project_id,
                 item.project_name, item.labels, item.priority_api,
                 IF item.due = None THEN None
                 ELSE Some(DueInfo(Get(item.due).date, Get(item.due).datetime,
                                   Get(item.due).timezone, Get(item.due).string)),
                 item.created_at, item.url)

\* diff.py _load_tasks: the tasks of a snapshot, or None when tasks.json is missing
load_tasks(store, snapshot_path) ==
  LET tasks_data == read_json(store, snapshot_path, "tasks.json")
  IN IF tasks_data = None THEN None
     ELSE Some([i \in DOMAIN Get(tasks_data) |-> model_validate(Get(tasks_data)[i])])

\* {task.id: task for task in tasks}: a later task with the same id replaces
\* an earlier one
TaskMap(tasks) ==
  [id \in {tasks[i].id : i \in DOMAIN tasks} |->
     tasks[CHOOSE i \in DOMAIN tasks :
             /\ tasks[i].id = id
             /\ \A j \in DOMAIN tasks : tasks[j].id = id => j <= i]]

\* Counter(names): name -> number of occurrences
Counter(names) ==
  [n \in Range(names) |-> Cardinality({i \in DOMAIN names : names[i] = n})]

\* diff.py line 40: set(current_map) - set(previous_map)
added_ids_mutant(current_map, previous_map) == DOMAIN current_map
added_ids_of(current_map, previous_map) == DOMAIN current_map \ DOMAIN previous_map

\* diff.py line 41: set(previous_map) - set(current_map)
removed_ids_of(current_map, previous_map) == DOMAIN previous_map \ DOMAIN current_map

\* diff.py line 42: set(current_map) & set(previous_map)
shared_ids_of(current_map, previous_map) == DOMAIN current_map \cap DOMAIN previous_map

\* diff.py line 52: set(current.labels) != set(previous.labels)
labels_differ_mutant(current, previous) == current.labels # previous.labels
labels_differ(current, previous) == Range(current.labels) # Range(previous.labels)

\* diff.py line 54: _parse_due(current) != _parse_due(previous)
due_differs(current, previous) == diff_parse_due(current) # diff_parse_due(previous)

\* diff.py diff_snapshots on two loaded task lists.  The result lists are
\* built by iterating Python sets, each id once and in no specified order:
\* each is given as the set of its elements.
diff_tasks(current_tasks, previous_tasks, now) ==
  LET current_map == TaskMap(current_tasks)
      previous_map == TaskMap(previous_tasks)
      added_ids == added_ids_of(current_map, previous_map)
      removed_ids == removed_ids_of(current_map, previous_map)
      shared_ids == shared_ids_of(current_map, previous_map)
      added_tasks == {current_map[id] : id \in added_ids}
  IN [counts_by_project |->
        Counter([i \in DOMAIN current_tasks |-> ProjectNameOrSentinel(current_tasks[i])]),
      added_tasks |-> added_tasks,
      removed_tasks |-> {previous_map[id] : id \in removed_ids},
      new_overdue |-> {t \in added_tasks :
                         diff_parse_due(t) # None /\ Get(diff_parse_due(t)) < now},
      label_changes |->
        {<<id, previous_map[id].labels, current_map[id].labels>> :
           id \in {i \in shared_ids : labels_differ(current_map[i], previous_map[i])}},
      due_changes |->
        {<<id, previous_map[id].due, current_map[id].due>> :
           id \in {i \in shared_ids : due_differs(current_map[i], previous_map[i])}}]

\* diff.py diff_snapshots(current_path, previous_path): Some(diff), or None
\* when a tasks.json is missing and read_json raises FileNotFoundError
diff_snapshots(store, current_path, previous_path, now) ==
  LET current_tasks == load_tasks(store, current_path)
      previous_tasks == load_tasks(store, previous_path)
  IN IF current_tasks = None \/ previous_tasks = None
     THEN None
     ELSE Some(diff_tasks(Get(current_tasks), Get(previous_tasks), now))

\* One call of diff_snapshots; it writes nothing.
DiffSnapshots(current_path, previous_path) ==
  /\ call = Idle
  /\ ret' = [fn |-> "diff_snapshots", current_path |-> current_path,
             previous_path |-> previous_path,
             result |-> diff_snapshots(fs, current_path, previous_path, today)]
  /\ UNCHANGED <<fs, today, clock, runs, call>>

(***************************************************************************)
(* SpecDiff: diff_snapshots over two stored snapshots                      *)
(***************************************************************************)
\* the most tasks a stored snapshot holds, and the ids they are drawn from
MaxDiffTasks == 2
DiffIds == 1..3

\* str(id) of the task ids 1..9
IdText(n) ==
  CASE n = 1 -> "1" [] n = 2 -> "2" [] n = 3 -> "3" [] n = 4 -> "4" [] n = 5 -> "5"
    [] n = 6 -> "6" [] n = 7 -> "7" [] n = 8 -> "8" [] OTHER -> "9"

L_waiting == <<"w", "a", "i", "t", "i", "n", "g">>
L_blocked == <<"b", "l", "o", "c", "k", "e", "d">>
P_Alpha == <<"A", "l", "p", "h", "a">>

\* The versions of a task a snapshot may hold: labels and due vary.
DiffVersions ==
  << [labels |-> <<L_waiting>>,
      due |-> Some(DueInfo(Some(IsoDate(1)), None, None, None)),
      project_name |-> Some(P_Alpha)],
     [labels |-> <<L_waiting, L_blocked>>,
      due |-> Some(DueInfo(Some(IsoDate(2)), None, None, None)),
      project_name |-> Some(P_Alpha)],
     [labels |-> <<L_blocked, L_waiting, L_waiting>>,
      due |-> Some(DueInfo(None, Some(IsoDateTime(1)), None, None)),
      project_name |-> Some(P_Alpha)],
     [labels |-> <<>>, due |-> None, project_name |-> None] >>

DiffTask(n, v) ==
  TaskNormalized(IdText(n), <<"t">>, None,
                 IF DiffVersions[v].project_name = None THEN None ELSE Some(<<"1", "0">>),
                 DiffVersions[v].project_name, DiffVersions[v].labels, 1,
                 DiffVersions[v].due, None, None)

RECURSIVE DiffTaskList(_, _)
\* the tasks of ids 1..n, in id order, id i present in version f[i] unless f[i] = 0
DiffTaskList(f, n) ==
  IF n = 0 THEN <<>>
  ELSE IF f[n] = 0 THEN DiffTaskList(f, n - 1)
       ELSE Append(DiffTaskList(f, n - 1), DiffTask(n, f[n]))

DumpAll(tasks) == [i \in DOMAIN tasks |-> model_dump(tasks[i])]

\* a snapshot directory holding tasks.json, or one where it is missing
DiffDirs ==
  {[name \in {"tasks.json"} |-> DumpAll(DiffTaskList(f, Cardinality(DiffIds)))] :
     f \in {g \in [DiffIds -> 0..Len(DiffVersions)] :
              Cardinality({i \in DiffIds : g[i] # 0}) <= MaxDiffTasks}}
  \cup {[name \in {} |-> <<>>]}

InitDiff ==
  /\ fs \in [{"curr", "prev"} -> DiffDirs]
  /\ clock = 0
  /\ runs = 0
  /\ today = 2
  /\ call = Idle
  /\ ret = NoRet

NextDiff == \E c, p \in {"curr", "prev"} : DiffSnapshots(c, p)

SpecDiff == InitDiff /\ [][NextDiff]_vars

\* the ids of the tasks stored in a snapshot directory
StoredTasks(dir) == Get(load_tasks(fs, dir))
StoredIds(dir) == {StoredTasks(dir)[i].id : i \in DOMAIN StoredTasks(dir)}
IdsOf(tasks) == {t.id : t \in tasks}
DiffReturned == ret.fn = "diff_snapshots" /\ ret.result # None

\* C3: diff_snapshots(current, previous) returns as added exactly the tasks
\* of current whose id is not in previous, as removed exactly the tasks of
\* previous whose id is not in current; the two id sets are disjoint and
\* hold no id present in both snapshots.
C3_AddedRemoved ==
  DiffReturned =>
    LET d == Get(ret.result)
        cur == StoredTasks(ret.current_path)
        prev == StoredTasks(ret.previous_path)
        curIds == StoredIds(ret.current_path)
        prevIds == StoredIds(ret.previous_path)
    IN /\ d.added_tasks = {t \in Range(cur) : t.id \notin prevIds}
       /\ d.removed_tasks = {t \in Range(prev) : t.id \notin curIds}
       /\ IdsOf(d.added_tasks) = curIds \ prevIds
       /\ IdsOf(d.removed_tasks) = prevIds \ curIds
       /\ IdsOf(d.added_tasks) \cap IdsOf(d.removed_tasks) = {}
       /\ (IdsOf(d.added_tasks) \cup IdsOf(d.removed_tasks)) \cap (curIds \cap prevIds) = {}

\* a diff of two different snapshots that has an added task, a removed task
\* and a task present in both
C3_Witness ==
  /\ DiffReturned
  /\ ret.current_path # ret.previous_path
  /\ IdsOf(Get(ret.result).added_tasks) = {"3"}
  /\ IdsOf(Get(ret.result).removed_tasks) = {"2"}
  /\ "1" \in StoredIds("curr") \cap StoredIds("prev")

\* the task with a given id in a stored snapshot (ids are unique in it)
StoredTask(dir, id) ==
  LET ts == StoredTasks(dir) IN ts[CHOOSE i \in DOMAIN ts : ts[i].id = id]

\* C4: an id present in both snapshots is in label_changes iff the label
\* sets of its two versions differ and in due_changes iff parseDue of the
\* two versions differs; an id present in only one snapshot is in neither;
\* a snapshot diffed against itself has no added, removed, label or due change.
C4_ChangeDetection ==
  DiffReturned =>
    LET d == Get(ret.result)
        c == ret.current_path
        p == ret.previous_path
        labelIds == {e[1] : e \in d.label_changes}
        dueIds == {e[1] : e \in d.due_changes}
    IN /\ \A id \in StoredIds(c) \cap StoredIds(p) :
            /\ id \in labelIds <=>
                 {StoredTask(c, id).labels[i] : i \in DOMAIN StoredTask(c, id).labels}
                   # {StoredTask(p, id).labels[i] : i \in DOMAIN StoredTask(p, id).labels}
            /\ id \in dueIds <=>
                 summarize_parse_due(StoredTask(c, id)) # summarize_parse_due(StoredTask(p, id))
       /\ \A e \in d.label_changes :
            e = <<e[1], StoredTask(p, e[1]).labels, StoredTask(c, e[1]).labels>>
       /\ \A e \in d.due_changes :
            e = <<e[1], StoredTask(p, e[1]).due, StoredTask(c, e[1]).due>>
       /\ labelIds \cup dueIds \subseteq StoredIds(c) \cap StoredIds(p)
       /\ c = p => /\ d.added_tasks = {} /\ d.removed_tasks = {}
                   /\ d.label_changes = {} /\ d.due_changes = {}

\* a diff in which task 1 changed its due date and only the order and
\* multiplicity of its labels, and task 2 changed its labels and only the
\* field that carries its date
C4_Witness ==
  /\ DiffReturned
  /\ ret.current_path = "curr" /\ ret.previous_path = "prev"
  /\ StoredIds("curr") = {"1", "2"} /\ StoredIds("prev") = {"1", "2"}
  /\ {e[1] : e \in Get(ret.result).label_changes} = {"2"}
  /\ {e[1] : e \in Get(ret.result).due_changes} = {"1"}
  /\ StoredTask("curr", "1").labels # StoredTask("prev", "1").labels
  /\ StoredTask("curr", "2").due # StoredTask("prev", "2").due

\* a snapshot with tasks diffed against itself
C4_WitnessSelf ==
  /\ DiffReturned
  /\ ret.current_path = ret.previous_path
  /\ StoredIds(ret.current_path) # {}

(***************************************************************************)
(* Due-date analysis (summarize.py)                                        *)
(***************************************************************************)
\* summarize.py due_buckets, lines 73-86: the bucket one task is counted in
bucket_of_mutant(due, now) ==
  IF due = None THEN "no_due"
  ELSE IF Get(due) < now THEN "overdue"
  ELSE IF Get(due) = now THEN "due_today"
  ELSE IF Get(due) < now + 7 THEN "due_next_7"
  ELSE IF Get(due) <= now + 30 THEN "due_next_30"
  ELSE "no_due"
bucket_of(due, now) ==
  IF due = None THEN "no_due"
  ELSE IF Get(due) < now THEN "overdue"
  ELSE IF Get(due) = now THEN "due_today"
  ELSE IF Get(due) <= now + 7 THEN "due_next_7"
  ELSE IF Get(due) <= now + 30 THEN "due_next_30"
  ELSE "no_due"

BucketNames == {"overdue", "due_today", "due_next_7", "due_next_30", "no_due"}

RECURSIVE due_buckets(_, _)
\* summarize.py due_buckets(tasks) with date.today() = now: the five counters
\* after the loop has run over tasks
due_buckets(tasks, now) ==
  IF tasks = <<>> THEN [b \in BucketNames |-> 0]
  ELSE LET n == Len(tasks)
           buckets == due_buckets(SubSeq(tasks, 1, n - 1), now)
           b == bucket_of(summarize_parse_due(tasks[n]), now)
       IN [buckets EXCEPT ![b] = @ + 1]

\* date.max.toordinal()
DATE_MAX == 3652059

\* summarize.py tasks_top_urgency.sort_key with date.today() = now: (rank, date)
sort_key_mutant(task, now) ==
  LET due == summarize_parse_due(task) IN
  IF due = None THEN <<0, DATE_MAX>>
  ELSE IF Get(due) < now THEN <<0, Get(due)>>
  ELSE <<1, Get(due)>>
sort_key(task, now) ==
  LET due == summarize_parse_due(task) IN
  IF due = None THEN <<2, DATE_MAX>>
  ELSE IF Get(due) < now THEN <<0, Get(due)>>
  ELSE IF Get(due) <= now + 7 THEN <<1, Get(due)>>
  ELSE <<1, Get(due)>>

\* Python's order on (int, date) tuples: a < b
KeyLess(a, b) == a[1] < b[1] \/ (a[1] = b[1] /\ a[2] < b[2])

\* one step of a stable sort: x goes after every element whose key is not
\* greater than its own
StableInsert(sorted, x, kx, keys) ==
  LET pos == Cardinality({i \in DOMAIN sorted : ~KeyLess(kx, keys[i])})
  IN SubSeq(sorted, 1, pos) \o <<x>> \o SubSeq(sorted, pos + 1, Len(sorted))

RECURSIVE sorted_by_urgency(_, _)
\* sorted(tasks, key=sort_key): stable, ascending
sorted_by_urgency(tasks, now) ==
  IF tasks = <<>> THEN <<>>
  ELSE LET n == Len(tasks)
           front == sorted_by_urgency(SubSeq(tasks, 1, n - 1), now)
       IN StableInsert(front, tasks[n], sort_key(tasks[n], now),
                       [i \in DOMAIN front |-> sort_key(front[i], now)])

\* sequence[:limit] for limit >= 0
Take(seq, limit) == SubSeq(seq, 1, IF limit < Len(seq) THEN limit ELSE Len(seq))

\* summarize.py tasks_top_urgency(tasks, limit) with date.today() = now
tasks_top_urgency(tasks, limit, now) == Take(sorted_by_urgency(tasks, now), limit)

\* summarize.py line 133: the test that lists a project.  no_due / total is a
\* float division; for these counts it is >= 0.5 exactly when 2 * no_due >= total
MIN_NO_DUE == 5
debt_listed_mutant(no_due, total) ==
  total # 0 /\ no_due > MIN_NO_DUE /\ 2 * no_due >= total
debt_listed(no_due, total) ==
  total # 0 /\ no_due >= MIN_NO_DUE /\ 2 * no_due >= total

RECURSIVE debt_counts(_)
\* summarize.py lines 123-128: the counts dict after the loop, as the
\* sequence of its items in insertion order
debt_counts(tasks) ==
  IF tasks = <<>> THEN <<>>
  ELSE LET n == Len(tasks)
           counts == debt_counts(SubSeq(tasks, 1, n - 1))
           project == ProjectNameOrSentinel(tasks[n])
           miss == IF summarize_parse_due(tasks[n]) = None THEN 1 ELSE 0
           known == {i \in DOMAIN counts : counts[i].project = project}
       IN IF known = {}
          THEN Append(counts, [project |-> project, no_due |-> miss, total |-> 1])
          ELSE [i \in DOMAIN counts |->
                  IF i \in known
                  THEN [counts[i] EXCEPT !.no_due = @ + miss, !.total = @ + 1]
                  ELSE counts[i]]

RECURSIVE sorted_by_no_due_desc(_)
\* sorted(result, key=lambda item: item[1], reverse=True): stable, an item
\* goes after every item whose no_due count is not smaller than its own
sorted_by_no_due_desc(result) ==
  IF result = <<>> THEN <<>>
  ELSE LET n == Len(result)
           front == sorted_by_no_due_desc(SubSeq(result, 1, n - 1))
           pos == Cardinality({i \in DOMAIN front : front[i][2] >= result[n][2]})
       IN SubSeq(front, 1, pos) \o <<result[n]>> \o SubSeq(front, pos + 1, Len(front))

\* summarize.py projects_with_no_due(tasks): [(project, no_due, total)]
projects_with_no_due(tasks) ==
  LET counts == debt_counts(tasks)
      listed == {i \in DOMAIN counts : debt_listed(counts[i].no_due, counts[i].total)}
      kept == SelectSeqBy(counts, listed)
  IN sorted_by_no_due_desc(
       [i \in DOMAIN kept |-> <<kept[i].project, kept[i].no_due, kept[i].total>>])

(***************************************************************************)
(* Heuristic classifier (summarize.py)                                     *)
(***************************************************************************)
VAGUE_PREFIXES ==
  <<<<"p", "l", "a", "n">>,
    <<"f", "i", "g", "u", "r", "e", " ", "o", "u", "t">>,
    <<"d", "e", "a", "l", " ", "w", "i", "t", "h">>,
    <<"w", "o", "r", "k", " ", "o", "n">>,
    <<"o", "r", "g", "a", "n", "i", "z", "e">>,
    <<"l", "o", "o", "k", " ", "i", "n", "t", "o">>,
    <<"t", "h", "i", "n", "k", " ", "a", "b", "o", "u", "t">>>>
BLOCKED_PHRASES ==
  <<<<"w", "a", "i", "t", "i", "n", "g", " ", "f", "o", "r">>,
    <<"f", "o", "l", "l", "o", "w", " ", "u", "p">>,
    <<"b", "l", "o", "c", "k", "e", "d">>,
    <<"s", "t", "u", "c", "k">>,
    <<"p", "e", "n", "d", "i", "n", "g">>>>
BLOCKED_LABELS ==
  {<<"w", "a", "i", "t", "i", "n", "g">>,
   <<"b", "l", "o", "c", "k", "e", "d">>,
   <<"w", "a", "i", "t", "i", "n", "g", "-", "f", "o", "r">>,
   <<"f", "o", "l", "l", "o", "w", "-", "u", "p">>}

IsSpace(c) == c = " "

RECURSIVE lstrip(_)
lstrip(str) == IF str # <<>> /\ IsSpace(str[1]) THEN lstrip(Tail(str)) ELSE str

RECURSIVE rstrip(_)
rstrip(str) ==
  IF str # <<>> /\ IsSpace(str[Len(str)]) THEN rstrip(SubSeq(str, 1, Len(str) - 1)) ELSE str

\* str.strip()
strip(str) == rstrip(lstrip(str))

\* str.startswith(prefix)
startswith(str, prefix) ==
  Len(prefix) <= Len(str) /\ SubSeq(str, 1, Len(prefix)) = prefix

\* sub in str
contains_mutant(str, sub) ==
  Len(sub) <= Len(str) /\ SubSeq(str, 1, Len(sub)) = sub
contains(str, sub) ==
  \E i \in 1..(Len(str) - Len(sub) + 1) : SubSeq(str, i, i + Len(sub) - 1) = sub

\* len(str.split()): the number of maximal runs of non-space characters
word_count(str) ==
  Cardinality({i \in DOMAIN str : ~IsSpace(str[i]) /\ (i = 1 \/ IsSpace(str[i - 1]))})

\* summarize.py is_vague_task(content)
is_vague_task_mutant(content) ==
  LET normalized == lower(strip(content))
  IN normalized # <<>> /\ \E i \in DOMAIN VAGUE_PREFIXES : startswith(normalized, VAGUE_PREFIXES[i])
is_vague_task(content) ==
  LET normalized == lower(strip(content))
  IN IF normalized = <<>> THEN FALSE
     ELSE IF word_count(normalized) > 6 THEN FALSE
     ELSE \E i \in DOMAIN VAGUE_PREFIXES : startswith(normalized, VAGUE_PREFIXES[i])

\* summarize.py is_blocked_task(content, labels)
is_blocked_task(content, labels) ==
  LET normalized == lower(strip(content))
  IN IF \E i \in DOMAIN BLOCKED_PHRASES : contains(normalized, BLOCKED_PHRASES[i])
     THEN TRUE
     ELSE {lower(strip(labels[i])) : i \in DOMAIN labels} \cap BLOCKED_LABELS # {}

(***************************************************************************)
(* Reports and the snapshot writer (summarize.py, snapshot.py).  A report  *)
(* file is kept as the values its lines render, in the order of the lines. *)
(***************************************************************************)
RECURSIVE all_labels(_)
\* [label for task in tasks for label in task.labels]
all_labels(tasks) ==
  IF tasks = <<>> THEN <<>> ELSE Head(tasks).labels \o all_labels(Tail(tasks))

FirstIndex(names, n) == CHOOSE i \in DOMAIN names : names[i] = n /\ \A j \in 1..(i - 1) : names[j] # n

RECURSIVE most_common_order(_, _)
\* the names of S by count descending, first counted first among equal counts
most_common_order(names, S) ==
  IF S = {} THEN <<>>
  ELSE LET counts == Counter(names)
           first == CHOOSE n \in S : \A m \in S \ {n} :
                      \/ counts[n] > counts[m]
                      \/ counts[n] = counts[m] /\ FirstIndex(names, n) < FirstIndex(names, m)
       IN <<first>> \o most_common_order(names, S \ {first})

\* Counter(names).most_common(): [(name, count)]
most_common(names) ==
  LET order == most_common_order(names, Range(names))
  IN [i \in DOMAIN order |-> <<order[i], Counter(names)[order[i]]>>]

\* summarize.py tasks_by_project(tasks).most_common()
tasks_by_project(tasks) ==
  most_common([i \in DOMAIN tasks |-> ProjectNameOrSentinel(tasks[i])])

\* summarize.py tasks_by_label(tasks).most_common()
tasks_by_label(tasks) == most_common(all_labels(tasks))

\* snapshot.py build_summary_md(tasks, projects) with date.today() = now
build_summary_md(tasks, projects, now) ==
  [tasks |-> Len(tasks),
   projects |-> Len(projects),
   top_projects |-> Take(tasks_by_project(tasks), 20),
   due_counts |-> due_buckets(tasks, now),
   top_labels |-> Take(tasks_by_label(tasks), 30),
   vague |-> LET kept == SelectSeqBy(tasks, {i \in DOMAIN tasks : is_vague_task(tasks[i].content)})
             IN [i \in DOMAIN kept |-> <<kept[i].id, kept[i].content>>],
   blocked |-> LET kept == SelectSeqBy(tasks, {i \in DOMAIN tasks :
                                                 is_blocked_task(tasks[i].content, tasks[i].labels)})
               IN [i \in DOMAIN kept |-> <<kept[i].id, kept[i].content>>],
   planning_debt |-> projects_with_no_due(tasks)]

\* snapshot.py lines 341-352: the due date of a task in build_projects_md
projects_md_due(task) ==
  IF task.due # None /\ TruthyText(Get(task.due).date)
  THEN date_fromisoformat(Get(Get(task.due).date))
  ELSE IF task.due # None /\ TruthyText(Get(task.due).datetime)
       THEN datetime_fromisoformat_date(Get(Get(task.due).datetime))
       ELSE None

\* snapshot.py build_projects_md(tasks, projects) with date.today() = now
build_projects_md(tasks, projects, now) ==
  LET names == SortedStrings({projects[i].name : i \in DOMAIN projects}
                             \cup {ProjectNameOrSentinel(tasks[i]) : i \in DOMAIN tasks})
      project_tasks(name) ==
        SelectSeqBy(tasks, {i \in DOMAIN tasks : ProjectNameOrSentinel(tasks[i]) = name})
      dues(name) == {Get(projects_md_due(project_tasks(name)[i])) :
                       i \in {j \in DOMAIN project_tasks(name) :
                                projects_md_due(project_tasks(name)[j]) # None}}
  IN [k \in DOMAIN names |->
        [name |-> names[k],
         task_count |-> Len(project_tasks(names[k])),
         overdue |-> Cardinality({i \in DOMAIN project_tasks(names[k]) :
                                    /\ projects_md_due(project_tasks(names[k])[i]) # None
                                    /\ Get(projects_md_due(project_tasks(names[k])[i])) < now}),
         next_due |-> IF dues(names[k]) = {} THEN None
                      ELSE Some(CHOOSE d \in dues(names[k]) : \A e \in dues(names[k]) : d <= e),
         top_labels |-> LET top == Take(most_common(all_labels(project_tasks(names[k]))), 5)
                        IN [i \in DOMAIN top |-> top[i][1]]]]

\* snapshot.py build_tasks_top_md(tasks) with date.today() = now
build_tasks_top_md(tasks, now) ==
  LET top_tasks == tasks_top_urgency(tasks, 100, now)
  IN [i \in DOMAIN top_tasks |->
        [id |-> top_tasks[i].id,
         project |-> ProjectNameOrSentinel(top_tasks[i]),
         due_value |-> IF top_tasks[i].due = None THEN EmptyText
                       ELSE IF TruthyText(Get(top_tasks[i].due).datetime)
                            THEN Get(Get(top_tasks[i].due).datetime)
                            ELSE IF TruthyText(Get(top_tasks[i].due).date)
                                 THEN Get(Get(top_tasks[i].due).date)
                                 ELSE EmptyText,
         labels |-> top_tasks[i].labels,
         priority |-> top_tasks[i].priority_api,
         content |-> top_tasks[i].content]]

\* diff.py build_diff_md(diff_data)
build_diff_md(diff_data) == diff_data

TOOL_VERSION == "0.1.0"
SnapshotMeta(timestamp, tool_version, filters, redacted, counts, warnings) ==
  [timestamp |-> timestamp, tool_version |-> tool_version, filters |-> filters,
   redacted |-> redacted, counts |-> counts, warnings |-> warnings]

\* the files of a directory after files are written into it: a file of the
\* same name is replaced, every other file stays (ensure_dir: exist_ok=True)
WriteFiles(old, new) ==
  [n \in DOMAIN old \cup DOMAIN new |-> IF n \in DOMAIN new THEN new[n] ELSE old[n]]

\* the directory snapshot_dir(base_dir, timestamp) as it is, empty if absent
DirFiles(store, path) == IF path \in DOMAIN store THEN store[path] ELSE <<>>

\* snapshot.py write_snapshot(...) with date.today() = now: the files it
\* writes and the SnapshotResult it returns
write_snapshot(timestamp, tasks, projects, labels, redacted, filters, warnings, label_filename, due_window_days, now) ==
  LET counts == [tasks |-> Len(tasks), projects |-> Len(projects), labels |-> Len(labels)]
      meta == SnapshotMeta(timestamp, TOOL_VERSION, filters, redacted, counts, warnings)
      notes == [id \in {tasks[i].id : i \in DOMAIN tasks} |->
                  [notes |-> "", assumptions |-> "", tags |-> <<>>, last_updated |-> ""]]
      always == [n \in {"meta.json", "tasks.json", "projects.json", label_filename,
                        "local_notes.json", "SUMMARY.md", "PROJECTS.md", "TASKS_TOP.md"} |->
                   CASE n = "meta.json" -> meta
                     [] n = "tasks.json" -> DumpAll(tasks)
                     [] n = "projects.json" -> projects
                     [] n = label_filename -> labels
                     [] n = "local_notes.json" -> notes
                     [] n = "SUMMARY.md" -> build_summary_md(tasks, projects, now)
                     [] n = "PROJECTS.md" -> build_projects_md(tasks, projects, now)
                     [] n = "TASKS_TOP.md" -> build_tasks_top_md(tasks, now)]
      window == IF due_window_days = None THEN <<>>
                ELSE [n \in {"tasks_due_window.json"} |->
                        DumpAll(SelectSeqBy(tasks, {i \in DOMAIN tasks :
                                  within_due_window(tasks[i], Get(due_window_days), now)}))]
  IN [files |-> WriteFiles(always, window),
      result |-> [snapshot_path |-> timestamp, counts |-> counts, warnings |-> warnings]]

(***************************************************************************)
(* SpecDue: parseDue and due_buckets on bounded inputs                     *)
(***************************************************************************)
MaxBucketTasks == 2

\* day offsets around the bucket boundaries, from the first today of SpecDue
DueOffsets == {-5, -1, 0, 1, 3, 7, 8, 20, 30, 31}
DueDays == {10 + o : o \in DueOffsets}

\* the values a due string can take in the parseDue inputs
ParseTexts ==
  {None, Some(EmptyText), Some(OtherText)}
  \cup {Some(IsoDate(d)) : d \in {9, 13}} \cup {Some(IsoDateTime(d)) : d \in {9, 13}}

DueTask(id, due) ==
  TaskNormalized(id, <<"t">>, None, None, None, <<>>, 1, due, None, None)

\* tasks with every combination of the date and datetime fields
ParseTasks ==
  {DueTask("1", None)}
  \cup {DueTask("1", Some(DueInfo(d, dt, None, None))) : d \in ParseTexts, dt \in ParseTexts}

\* tasks for the bucket inputs: no due, an unparsable date, a date, a date-time
BucketDues ==
  {None, Some(DueInfo(Some(OtherText), Some(IsoDateTime(10)), None, None))}
  \cup {Some(DueInfo(Some(IsoDate(d)), None, None, None)) : d \in DueDays}
  \cup {Some(DueInfo(None, Some(IsoDateTime(d)), None, None)) : d \in {10, 17}}

BucketTasks == {DueTask("1", due) : due \in BucketDues}

\* tasks due at -5d, 0d, +3d, +20d and with no due date, relative to now
BucketExample(now) ==
  << DueTask("1", Some(DueInfo(Some(IsoDate(now - 5)), None, None, None))),
     DueTask("2", Some(DueInfo(Some(IsoDate(now)), None, None, None))),
     DueTask("3", Some(DueInfo(Some(IsoDate(now + 3)), None, None, None))),
     DueTask("4", Some(DueInfo(Some(IsoDate(now + 20)), None, None, None))),
     DueTask("5", None) >>

MaxUrgencyTasks == 3
MaxDebtCount == 6

\* the inputs of tasks_top_urgency: task i of a list has id i; its due is
\* absent, unparsable, or a date around today
UrgencyDues ==
  {None, Some(DueInfo(Some(OtherText), Some(IsoDateTime(9)), None, None)),
   Some(DueInfo(None, Some(IsoDateTime(12)), None, None))}
  \cup {Some(DueInfo(Some(IsoDate(d)), None, None, None)) : d \in {8, 9, 10, 50}}

UrgencyLists ==
  {[i \in DOMAIN dues |-> DueTask(IdText(i), dues[i])] :
     dues \in SeqsUpTo(UrgencyDues, MaxUrgencyTasks)}

P_Beta == <<"B", "e", "t", "a">>

DebtTask(project_name, dated) ==
  TaskNormalized("1", <<"t">>, None,
                 IF TruthyStr(project_name) THEN Some(<<"1", "0">>) ELSE None,
                 project_name, <<>>, 1,
                 IF dated THEN Some(DueInfo(Some(IsoDate(10)), None, None, None)) ELSE None,
                 None, None)

\* k copies of a task
Copies(task, k) == [i \in 1..k |-> task]

RECURSIVE Alternate(_, _)
\* a[1], b[1], a[2], b[2], ... and then the rest of the longer list
Alternate(a, b) ==
  IF a = <<>> THEN b
  ELSE IF b = <<>> THEN a
  ELSE <<a[1], b[1]>> \o Alternate(Tail(a), Tail(b))

\* the inputs of projects_with_no_due: the tasks of two projects, each with
\* up to MaxDebtCount tasks without and up to MaxDebtCount tasks with a due
\* date, one project after the other or interleaved
DebtLists ==
  {LET a == Copies(DebtTask(Some(P_Alpha), FALSE), c[1])
            \o Copies(DebtTask(Some(P_Alpha), TRUE), c[2])
       b == Copies(DebtTask(other, TRUE), c[4])
            \o Copies(DebtTask(other, FALSE), c[3])
   IN CASE order = "ab" -> a \o b
        [] order = "ba" -> b \o a
        [] order = "mixed" -> Alternate(a, b) :
     c \in [1..4 -> 0..MaxDebtCount], order \in {"ab", "ba", "mixed"},
     other \in {None, Some(<<>>), Some(P_Beta)}}

InitDue ==
  /\ fs = <<>>
  /\ clock = 0
  /\ runs = 0
  /\ ret = NoRet
  /\ \/ /\ today \in {10, 11}
        /\ call \in {[fn |-> "parse_due", args |-> <<task, days>>] :
                       task \in ParseTasks, days \in {0, 3}}
     \/ /\ today \in {10, 11}
        /\ call \in {[fn |-> "due_buckets", args |-> <<tasks>>] :
                       tasks \in SeqsUpTo(BucketTasks, MaxBucketTasks)}
     \/ /\ today \in {10, 11}
        /\ call = [fn |-> "due_buckets", args |-> <<BucketExample(today)>>]
     \/ /\ today \in {10, 11}
        /\ call \in {[fn |-> "tasks_top_urgency", args |-> <<tasks, limit>>] :
                       tasks \in UrgencyLists, limit \in {0, 2, 100}}
     \/ /\ today = 10
        /\ call \in {[fn |-> "projects_with_no_due", args |-> <<tasks>>] :
                       tasks \in DebtLists}

\* the three copies of parseDue applied to one task
ParseDue ==
  /\ call.fn = "parse_due"
  /\ ret' = [fn |-> "parse_due", args |-> call.args,
             result |-> [summarize |-> summarize_parse_due(call.args[1]),
                         diff |-> diff_parse_due(call.args[1]),
                         window_target |-> within_due_window_target(call.args[1]),
                         within_window |->
                           within_due_window(call.args[1], call.args[2], today)]]
  /\ call' = Idle
  /\ UNCHANGED <<fs, today, clock, runs>>

DueBuckets ==
  /\ call.fn = "due_buckets"
  /\ ret' = [fn |-> "due_buckets", args |-> call.args,
             result |-> due_buckets(call.args[1], today)]
  /\ call' = Idle
  /\ UNCHANGED <<fs, today, clock, runs>>

TasksTopUrgency ==
  /\ call.fn = "tasks_top_urgency"
  /\ ret' = [fn |-> "tasks_top_urgency", args |-> call.args,
             result |-> tasks_top_urgency(call.args[1], call.args[2], today)]
  /\ call' = Idle
  /\ UNCHANGED <<fs, today, clock, runs>>

ProjectsWithNoDue ==
  /\ call.fn = "projects_with_no_due"
  /\ ret' = [fn |-> "projects_with_no_due", args |-> call.args,
             result |-> projects_with_no_due(call.args[1])]
  /\ call' = Idle
  /\ UNCHANGED <<fs, today, clock, runs>>

NextDue == ParseDue \/ DueBuckets \/ TasksTopUrgency \/ ProjectsWithNoDue

SpecDue == InitDue /\ [][NextDue]_vars

\* a due string is present when it is neither null nor empty
Present(text) == text # None /\ Get(text) # EmptyText

\* C7: a present date field alone decides parseDue (its date, or absent when
\* it does not parse, whatever the datetime field holds); the datetime
\* field's date part is used only when the date field is absent; a parse
\* failure gives absent; the copies in summarize, diff and snapshot agree.
C7_ParseDueShortCircuit ==
  ret.fn = "parse_due" =>
    LET task == ret.args[1]
        r == ret.result
    IN /\ task.due = None => r.summarize = None
       /\ task.due # None =>
            LET due == Get(task.due) IN
            /\ Present(due.date) /\ Get(due.date).fmt = "date"
                 => r.summarize = Some(Get(due.date).day)
            /\ Present(due.date) /\ Get(due.date).fmt # "date"
                 => r.summarize = None
            /\ ~Present(due.date) /\ Present(due.datetime)
                 /\ Get(due.datetime).fmt \in {"date", "datetime"}
                 => r.summarize = Some(Get(due.datetime).day)
            /\ ~Present(due.date) /\ Present(due.datetime)
                 /\ Get(due.datetime).fmt \notin {"date", "datetime"}
                 => r.summarize = None
            /\ ~Present(due.date) /\ ~Present(due.datetime) => r.summarize = None
       /\ r.diff = r.summarize
       /\ r.window_target = r.summarize
       /\ r.within_window <=>
            (r.summarize # None /\ Get(r.summarize) <= today + ret.args[2])

\* parseDue of a task whose date field does not parse while its datetime
\* field holds a valid date-time
C7_Witness ==
  /\ ret.fn = "parse_due"
  /\ ret.args[1].due = Some(DueInfo(Some(OtherText), Some(IsoDateTime(9)), None, None))
  /\ ret.result.summarize = None
  /\ ret.result.diff = None
  /\ ~ret.result.within_window

\* C8: due_buckets counts every task in exactly one bucket: parseDue absent
\* -> no_due; due < today -> overdue; due = today -> due_today; today < due
\* <= today+7 -> due_next_7; today+7 < due <= today+30 -> due_next_30; due >
\* today+30 -> no_due.  The counts sum to the number of tasks, and tasks due
\* at -5d, 0d, +3d, +20d and with no due date give one task per bucket.
C8_Rule(task, b) ==
  LET due == summarize_parse_due(task) IN
  CASE b = "overdue" -> due # None /\ Get(due) < today
    [] b = "due_today" -> due # None /\ Get(due) = today
    [] b = "due_next_7" -> due # None /\ today < Get(due) /\ Get(due) <= today + 7
    [] b = "due_next_30" -> due # None /\ today + 7 < Get(due) /\ Get(due) <= today + 30
    [] b = "no_due" -> due = None \/ Get(due) > today + 30

C8_DueBuckets ==
  ret.fn = "due_buckets" =>
    LET tasks == ret.args[1]
        r == ret.result
    IN /\ DOMAIN r = BucketNames
       /\ \A b \in BucketNames :
            r[b] = Cardinality({i \in DOMAIN tasks : C8_Rule(tasks[i], b)})
       /\ r["overdue"] + r["due_today"] + r["due_next_7"] + r["due_next_30"]
            + r["no_due"] = Len(tasks)
       /\ tasks = BucketExample(today) => \A b \in BucketNames : r[b] = 1

\* due_buckets of the five-task example
C8_Witness ==
  /\ ret.fn = "due_buckets"
  /\ ret.args[1] = BucketExample(today)
  /\ \A b \in BucketNames : ret.result[b] = 1

\* due_buckets of a task due in exactly 7 days and one due in exactly 30 days
C8_WitnessBoundary ==
  /\ ret.fn = "due_buckets"
  /\ Len(ret.args[1]) = 2
  /\ summarize_parse_due(ret.args[1][1]) = Some(today + 7)
  /\ summarize_parse_due(ret.args[1][2]) = Some(today + 30)
  /\ ret.result["due_next_7"] = 1 /\ ret.result["due_next_30"] = 1

\* the position of a returned task in the input list (ids are positions)
InputPos(tasks, t) == CHOOSE i \in DOMAIN tasks : tasks[i] = t

C9_Min(a, b) == IF a < b THEN a ELSE b

\* the key of the claim: rank 0 for parseDue < today, rank 1 for every other
\* dated task, rank 2 with the maximum date for tasks with no parseable due
C9_Key(t) ==
  LET due == diff_parse_due(t) IN
  IF due = None THEN <<2, DATE_MAX>>
  ELSE <<IF Get(due) < today THEN 0 ELSE 1, Get(due)>>

\* a precedes b in the stable order: by key, and by input position on equal keys
C9_Before(tasks, a, b) ==
  \/ KeyLess(C9_Key(a), C9_Key(b))
  \/ C9_Key(a) = C9_Key(b) /\ InputPos(tasks, a) < InputPos(tasks, b)

\* C9: tasks_top_urgency returns the first min(limit, n) elements of the
\* input stably sorted by (rank, date): overdue tasks precede the other dated
\* tasks, dated tasks precede no-due tasks, dated tasks are in non-decreasing
\* date order, tasks with equal keys keep their input order, every returned
\* element is an input task and none is returned twice.
C9_UrgencyOrder ==
  ret.fn = "tasks_top_urgency" =>
    LET tasks == ret.args[1]
        limit == ret.args[2]
        r == ret.result
        due(t) == diff_parse_due(t)
    IN /\ Len(r) = C9_Min(limit, Len(tasks))
       /\ \A i \in DOMAIN r : r[i] \in Range(tasks)
       /\ \A i, j \in DOMAIN r : i # j => r[i] # r[j]
       /\ \A i, j \in DOMAIN r : i < j => C9_Before(tasks, r[i], r[j])
       /\ \A i \in DOMAIN r : \A t \in Range(tasks) \ Range(r) : C9_Before(tasks, r[i], t)
       /\ \A i, j \in DOMAIN r :
            /\ due(r[i]) # None /\ due(r[j]) = None => i < j
            /\ due(r[i]) # None /\ due(r[j]) # None
                 /\ Get(due(r[i])) < today /\ Get(due(r[j])) >= today => i < j
            /\ due(r[i]) # None /\ due(r[j]) # None /\ i < j
                 => Get(due(r[i])) <= Get(due(r[j]))
            /\ C9_Key(r[i]) = C9_Key(r[j]) /\ i < j
                 => InputPos(tasks, r[i]) < InputPos(tasks, r[j])

\* three tasks given as no-due, due later, overdue come back reversed; with
\* limit 2 the no-due task is cut
C9_Witness ==
  /\ ret.fn = "tasks_top_urgency"
  /\ Len(ret.args[1]) = 3
  /\ ret.args[2] = 2
  /\ diff_parse_due(ret.args[1][1]) = None
  /\ diff_parse_due(ret.args[1][2]) = Some(50)
  /\ diff_parse_due(ret.args[1][3]) = Some(8)
  /\ ret.result = <<ret.args[1][3], ret.args[1][2]>>

\* two no-due tasks and two tasks with equal dates keep their input order
C9_WitnessStable ==
  /\ ret.fn = "tasks_top_urgency"
  /\ Len(ret.args[1]) = 3
  /\ diff_parse_due(ret.args[1][1]) = None
  /\ diff_parse_due(ret.args[1][2]) = None
  /\ diff_parse_due(ret.args[1][3]) # None
  /\ ret.result = <<ret.args[1][3], ret.args[1][1], ret.args[1][2]>>

\* the project names of a task list, the sentinel for tasks without one
C10_Name(t) == IF t.project_name = None \/ Get(t.project_name) = <<>>
               THEN NO_PROJECT ELSE Get(t.project_name)
C10_NoDue(tasks, name) ==
  Cardinality({i \in DOMAIN tasks : C10_Name(tasks[i]) = name
                                     /\ diff_parse_due(tasks[i]) = None})
C10_Total(tasks, name) ==
  Cardinality({i \in DOMAIN tasks : C10_Name(tasks[i]) = name})

\* C10: projects_with_no_due lists a project iff its number of tasks with
\* absent parseDue is at least 5 and at least half of its task count; each
\* entry carries (noDueCount, totalCount); the list is sorted by descending
\* noDueCount.  4 no-due of 4 is excluded, 5 no-due of 8 is included.
C10_PlanningDebt ==
  ret.fn = "projects_with_no_due" =>
    LET tasks == ret.args[1]
        r == ret.result
        names == {C10_Name(tasks[i]) : i \in DOMAIN tasks}
    IN /\ \A name \in names :
            (\E i \in DOMAIN r : r[i][1] = name)
              <=> /\ C10_NoDue(tasks, name) >= 5
                  /\ 2 * C10_NoDue(tasks, name) >= C10_Total(tasks, name)
       /\ \A i \in DOMAIN r :
            /\ r[i][1] \in names
            /\ r[i] = <<r[i][1], C10_NoDue(tasks, r[i][1]), C10_Total(tasks, r[i][1])>>
       /\ \A i, j \in DOMAIN r : i # j => r[i][1] # r[j][1]
       /\ \A i, j \in DOMAIN r : i < j => r[i][2] >= r[j][2]
       /\ \A name \in names :
            /\ C10_NoDue(tasks, name) = 4 /\ C10_Total(tasks, name) = 4
                 => \A i \in DOMAIN r : r[i][1] # name
            /\ C10_NoDue(tasks, name) = 5 /\ C10_Total(tasks, name) = 8
                 => \E i \in DOMAIN r : r[i][1] = name

\* Alpha with 5 no-due tasks of 8 is listed after the tasks without a project,
\* 6 no-due of 6, although Alpha's tasks come first in the input
C10_Witness ==
  /\ ret.fn = "projects_with_no_due"
  /\ Len(ret.args[1]) = 14
  /\ ret.args[1][1].project_name = Some(P_Alpha)
  /\ ret.result = <<<<NO_PROJECT, 6, 6>>, <<P_Alpha, 5, 8>>>>

\* a project with 4 no-due tasks of 4 is left out
C10_WitnessExcluded ==
  /\ ret.fn = "projects_with_no_due"
  /\ C10_NoDue(ret.args[1], P_Alpha) = 4 /\ C10_Total(ret.args[1], P_Alpha) = 4
  /\ C10_NoDue(ret.args[1], P_Beta) = 5 /\ C10_Total(ret.args[1], P_Beta) = 10
  /\ ret.result = <<<<P_Beta, 5, 10>>>>

(***************************************************************************)
(* SpecBuild: build_snapshot_from_data on bounded raw payloads             *)
(***************************************************************************)
MaxBuildTasks == 2

L_Waiting == <<"W", "a", "i", "t", "i", "n", "g">>
L_finance == <<"f", "i", "n", "a", "n", "c", "e">>
Id_7 == <<"7">>
Id_X9 == <<"X", "9">>
Id_8 == <<"8">>

\* the projects endpoint: Alpha has a numeric id, Beta an alphanumeric one
BuildProjects == <<Project(Id_7, P_Alpha), Project(Id_X9, P_Beta)>>

\* the labels endpoint
ApiLabels == <<Label(Some(<<"1">>), L_waiting), Label(None, L_finance)>>

\* raw tasks for the filter inputs: no project, Alpha, Beta, or a project the
\* projects endpoint does not list; no label, one label, two labels
FilterRawTasks ==
  {RawTask(Some("1"), Some(<<"t">>), project_id, labels, None) :
     project_id \in {None, Some(Id_7), Some(Id_X9), Some(Id_8)},
     labels \in {None, Some(<<L_waiting>>), Some(<<L_finance, L_Waiting>>)}}

FilterConfigs ==
  {SnapshotFilters(ip, ep, il, el, None) :
     ip \in {<<>>, << <<"a", "l", "p", "h", "a">> >>, << <<"x", "9">> >>, <<Id_X9, Id_7>>},
     ep \in {<<>>, << <<"A", "L", "P", "H", "A">> >>, <<Id_X9>>},
     il \in {<<>>, << <<"W", "A", "I", "T", "I", "N", "G">> >>},
     el \in {<<>>, <<L_Waiting, L_blocked>>}}

NoFilters == SnapshotFilters(<<>>, <<>>, <<>>, <<>>, None)

\* the due objects of the API: any subset of the four keys, each date and
\* datetime value null, empty or an ISO text
RawDues ==
  {None}
  \cup UNION {[keys -> {None, Some(EmptyText), Some(IsoDate(5)), Some(IsoDateTime(5)),
                        Some(OtherText)}] :
                keys \in SUBSET {"date", "datetime", "timezone", "string"}}

DueRawTasks ==
  {RawTask(Some("1"), Some(<<"t">>), None, None, IF d = None THEN None ELSE Some(d)) :
     d \in {x \in RawDues : x = None \/
              /\ \A k \in DOMAIN x \cap {"timezone", "string"} : x[k] = Some(OtherText)
              /\ \A k \in DOMAIN x \cap {"date"} : x[k] # Some(IsoDateTime(5))
              /\ \A k \in DOMAIN x \cap {"datetime"} : x[k] # Some(IsoDate(5))}}

BuildCall(tasks, projects, labels, redacted, filters) ==
  [fn |-> "build_snapshot_from_data",
   args |-> [tasks |-> tasks, projects |-> projects, labels |-> labels,
             redacted |-> redacted, filters |-> filters]]

InitBuild ==
  /\ fs = <<>>
  /\ clock = 0
  /\ runs = 0
  /\ today = 10
  /\ ret = NoRet
  /\ \/ call \in {BuildCall(tasks, BuildProjects, Some(ApiLabels), FALSE, filters) :
                    tasks \in SeqsUpTo(FilterRawTasks, MaxBuildTasks),
                    filters \in FilterConfigs}
     \/ call \in {BuildCall(tasks, BuildProjects, None, FALSE, filters) :
                    tasks \in SeqsUpTo(FilterRawTasks, MaxBuildTasks),
                    filters \in {NoFilters, SnapshotFilters(<<>>, <<>>, <<>>, <<L_Waiting>>, None)}}
     \/ call \in {BuildCall(<<task>>, BuildProjects, Some(ApiLabels), FALSE, NoFilters) :
                    task \in DueRawTasks}

BuildSnapshotFromData ==
  /\ call.fn = "build_snapshot_from_data"
  /\ ret' = [fn |-> "build_snapshot_from_data", args |-> call.args,
             result |-> build_snapshot_from_data(call.args.tasks, call.args.projects,
                                                 call.args.labels, call.args.redacted,
                                                 call.args.filters)]
  /\ call' = Idle
  /\ UNCHANGED <<fs, today, clock, runs>>

NextBuild == BuildSnapshotFromData

SpecBuild == InitBuild /\ [][NextBuild]_vars

\* the normalized tasks of a build call before filtering, in input order
C5_Normalized ==
  [i \in DOMAIN ret.args.tasks |->
     normalize_task(ret.args.tasks[i], ProjectLookup(ret.args.projects))]

\* a filter entry matches a task's project when it equals, compared
\* case-insensitively, the project's display name or its identifier
C5_ProjectMatch(task, entries) ==
  \E e \in Range(entries) :
    \/ task.project_name # None /\ lower(e) = lower(Get(task.project_name))
    \/ task.project_id # None /\ lower(e) = lower(Get(task.project_id))

C5_LabelMatch(task, entries) ==
  \E e \in Range(entries) : \E i \in DOMAIN task.labels : lower(e) = lower(task.labels[i])

C5_Keeps(task, filters) ==
  /\ filters.include_projects # <<>> => C5_ProjectMatch(task, filters.include_projects)
  /\ ~C5_ProjectMatch(task, filters.exclude_projects)
  /\ filters.include_labels # <<>> => C5_LabelMatch(task, filters.include_labels)
  /\ ~C5_LabelMatch(task, filters.exclude_labels)

\* C5: the filtered result is exactly the normalized tasks, in input order,
\* that match include-project when it is non-empty, do not match
\* exclude-project, carry a label of include-label when it is non-empty and
\* carry no label of exclude-label; projects match by display name or by
\* identifier, labels by name, all compared case-insensitively.
C5_FilterSemantics ==
  ret.fn = "build_snapshot_from_data" =>
    ret.result.tasks =
      SelectSeqBy(C5_Normalized,
                  {i \in DOMAIN C5_Normalized : C5_Keeps(C5_Normalized[i], ret.args.filters)})

\* C6: every task the Normalizer produces with a non-null due has its date
\* or its datetime field set, whatever keys the raw due object holds.
C6_DueInfoInvariant ==
  ret.fn = "build_snapshot_from_data" =>
    \A i \in DOMAIN ret.result.tasks :
      LET due == ret.result.tasks[i].due
      IN due # None => Get(due).date # None \/ Get(due).datetime # None

(***************************************************************************)
(* Spec: run_snapshot invoked repeatedly on one base directory while the   *)
(* clock advances                                                          *)
(***************************************************************************)
MaxRuns == 2
MaxMinute == 1

\* datetime.now().strftime("%Y-%m-%d_%H%M") at minute m of the hour
strftime(m) ==
  CASE m = 0 -> "2024-01-10_0900"
    [] m = 1 -> "2024-01-10_0901"
    [] m = 2 -> "2024-01-10_0902"
    [] m = 3 -> "2024-01-10_0903"
    [] OTHER -> "2024-01-10_09xx"

C_plan == <<"p", "l", "a", "n", " ", "x">>
C_call == <<"c", "a", "l", "l", " ", "5", "5", "5", "-", "1", "2", "3", "4">>
C_mail == <<"a", "@", "b", ".", "c", "o">>

RawDue(key, text) == [k \in {key} |-> Some(text)]

\* two payloads of the tasks endpoint: task 1 changes its label and due date,
\* task 2 goes and task 3 comes
TasksA ==
  <<RawTask(Some("1"), Some(C_plan), Some(Id_7), Some(<<L_waiting>>), Some(RawDue("date", IsoDate(9)))),
    RawTask(Some("2"), Some(C_call), None, Some(<<L_finance, L_Waiting>>), None)>>
TasksB ==
  <<RawTask(Some("1"), Some(C_plan), Some(Id_7), Some(<<L_finance>>), Some(RawDue("date", IsoDate(12)))),
    RawTask(Some("3"), Some(C_mail), Some(Id_X9), None, Some(RawDue("datetime", IsoDateTime(10))))>>

ExcludeAlpha ==
  SnapshotFilters(<<>>, << <<"a", "l", "p", "h", "a">> >>, <<>>, <<>>, Some(7))

\* what one invocation meets: each endpoint answers (Some payload) or fails
\* (None), and the caller's options
RunInput(tasks, projects, labels, redacted, filters, diff_path) ==
  [tasks |-> tasks, projects |-> projects, labels |-> labels, redacted |-> redacted,
   filters |-> filters, diff_path |-> diff_path]

RunInputs ==
  {RunInput(None, Some(BuildProjects), Some(ApiLabels), FALSE, NoFilters, None),
   RunInput(Some(TasksA), None, Some(ApiLabels), FALSE, NoFilters, None)}
  \cup {RunInput(Some(tasks), Some(BuildProjects), labels, o[1], o[2], o[3]) :
          tasks \in {TasksA, TasksB},
          labels \in {None, Some(ApiLabels)},
          o \in {<<FALSE, NoFilters, None>>,
                 <<TRUE, ExcludeAlpha, None>>,
                 <<FALSE, NoFilters, Some(strftime(0))>>}}

Init ==
  /\ fs = <<>>
  /\ clock = 0
  /\ runs = 0
  /\ today = 10
  /\ call = Idle
  /\ ret = NoRet

\* what run_snapshot returns or raises: the directory it wrote, if it got
\* that far, its SnapshotResult, if it returned one, and the error otherwise
RunOutcome(in, written, result, error) ==
  [fn |-> "run_snapshot", args |-> in, written |-> written, result |-> result,
   error |-> error]

\* snapshot.py lines 199-204: the diff step on the store as written
run_snapshot_diff(written, in, result, now, diff_data) ==
  IF diff_data = None
  THEN \* diff_snapshots raises after the snapshot is written
       [store |-> written,
        ret |-> RunOutcome(in, Some(result.snapshot_path), None, "FileNotFoundError")]
  ELSE [store |-> [written EXCEPT ![result.snapshot_path] =
                     WriteFiles(@, [n \in {"DIFF.md"} |-> build_diff_md(Get(diff_data))])],
        ret |-> RunOutcome(in, Some(result.snapshot_path), Some(result), "")]

\* snapshot.py lines 199-205 after write_snapshot has written the files
run_snapshot_written(written, in, result, now) ==
  IF in.diff_path = None
  THEN [store |-> written,
        ret |-> RunOutcome(in, Some(result.snapshot_path), Some(result), "")]
  ELSE run_snapshot_diff(written, in, result, now,
                         diff_snapshots(written, result.snapshot_path,
                                        Get(in.diff_path), now))

\* the store after write_snapshot has written files into snapshot_path
StoreWritten(store, snapshot_path, files) ==
  [p \in DOMAIN store \cup {snapshot_path} |->
     IF p = snapshot_path THEN WriteFiles(DirFiles(store, snapshot_path), files)
     ELSE store[p]]

\* snapshot.py lines 184-198 with the data build_snapshot_from_data returned
run_snapshot_write(store, in, w, now) ==
  run_snapshot_written(StoreWritten(store, w.result.snapshot_path, w.files), in,
                       w.result, now)

run_snapshot_built(store, in, built, now_minute, now) ==
  run_snapshot_write(store, in,
                     write_snapshot(strftime(now_minute), built.tasks, built.projects,
                                    built.labels, in.redacted, in.filters,
                                    IF in.labels = None THEN Append(built.warnings, W_LABELS)
                                    ELSE built.warnings,
                                    IF in.labels = None THEN "inferred_labels.json"
                                    ELSE "labels.json",
                                    in.filters.due_window_days, now),
                     now)

\* snapshot.py run_snapshot(token, base_dir, redacted, filters, diff_path) on
\* the store, with datetime.now() in minute now_minute and date.today() = now:
\* the store it leaves and its outcome
run_snapshot(store, in, now_minute, now) ==
  IF in.tasks = None \/ in.projects = None
  THEN \* get_tasks or get_projects raises: nothing is written
       [store |-> store, ret |-> RunOutcome(in, None, None, "HTTPError")]
  ELSE run_snapshot_built(store, in,
                          build_snapshot_from_data(Get(in.tasks), Get(in.projects),
                                                   in.labels, in.redacted, in.filters),
                          now_minute, now)

\* One invocation of run_snapshot.
RunSnapshot(in) ==
  /\ runs < MaxRuns
  /\ runs' = runs + 1
  /\ fs' = run_snapshot(fs, in, clock, today).store
  /\ ret' = run_snapshot(fs, in, clock, today).ret
  /\ UNCHANGED <<today, clock, call>>

\* a minute passes
Tick ==
  /\ clock < MaxMinute
  /\ clock' = clock + 1
  /\ UNCHANGED <<fs, today, runs, call, ret>>

Next ==
  \/ \E in \in RunInputs : RunSnapshot(in)
  \/ Tick

Spec == Init /\ [][Next]_vars

\* the files of the directory the last invocation wrote
WrittenDir == fs[Get(ret.written)]

\* C1: a snapshot is never mutated after creation: no step of any invocation
\* creates, overwrites or changes a file inside a snapshot directory that an
\* earlier invocation has written; every directory of the store stays, with
\* exactly the files and contents it had.
C1_SnapshotNeverMutated ==
  [][\A path \in DOMAIN fs : path \in DOMAIN fs' /\ fs'[path] = fs[path]]_vars

\* C2: a failure of list-labels is never fatal.  When get_tasks and
\* get_projects succeed and get_labels raises, run_snapshot writes the
\* snapshot and returns its result (the only error left is the diff step,
\* asked for by the caller, not finding a snapshot to read after the write);
\* the persisted label list is the sorted list of the distinct labels of the
\* persisted, post-filter tasks, and the warnings of the metadata and of the
\* result are non-empty.  When get_labels succeeds there is no warning.
C2_LabelFailureNonFatal ==
  (ret.fn = "run_snapshot" /\ ret.args.tasks # None /\ ret.args.projects # None) =>
    /\ ret.written # None
    /\ ret.result = None => (ret.args.diff_path # None /\ ret.error = "FileNotFoundError")
    /\ {"meta.json", "tasks.json"} \subseteq DOMAIN WrittenDir
    /\ IF ret.args.labels = None
       THEN /\ "inferred_labels.json" \in DOMAIN WrittenDir
            /\ LET persisted == WrittenDir["inferred_labels.json"]
                   tasks == WrittenDir["tasks.json"]
               IN /\ {persisted[i].name : i \in DOMAIN persisted}
                       = UNION {Range(tasks[j].labels) : j \in DOMAIN tasks}
                  /\ \A i, j \in DOMAIN persisted :
                       i < j => StrLess(persisted[i].name, persisted[j].name)
            /\ WrittenDir["meta.json"].warnings # <<>>
            /\ ret.result # None => Get(ret.result).warnings # <<>>
       ELSE /\ "labels.json" \in DOMAIN WrittenDir
            /\ WrittenDir["meta.json"].warnings = <<>>
            /\ ret.result # None => Get(ret.result).warnings = <<>>

\* get_labels raised, the exclude-project filter dropped the task labelled
\* "waiting", and the invocation returned after persisting the two labels of
\* the task that is left, sorted
C2_Witness ==
  /\ ret.fn = "run_snapshot"
  /\ ret.args.tasks = Some(TasksA)
  /\ ret.args.labels = None
  /\ ret.args.filters = ExcludeAlpha
  /\ ret.result # None
  /\ WrittenDir["inferred_labels.json"] = <<Label(None, L_Waiting), Label(None, L_finance)>>
  /\ Len(WrittenDir["tasks.json"]) = 1
  /\ Len(WrittenDir["meta.json"].warnings) = 2

(***************************************************************************)
(* SpecText: redact_text, is_vague_task and is_blocked_task on bounded     *)
(* texts                                                                   *)
(***************************************************************************)
MaxFragments == 3

T_email == <<"a", "@", "b", ".", "c", "o">>
T_phone == <<"4", "1", "5", "-", "5", "5", "5", "-", "1", "2", "3", "4">>
T_number == <<"1", "2", "3", "4", "5", "6", "7", "8">>
T_url == <<"h", "t", "t", "p", "s", ":", "/", "/", "x", ".", "i", "o">>
T_digits == <<"1", "2", "3">>
T_space == <<" ">>
T_at == <<"@">>
T_tld == <<".", "c", "o">>

\* the pieces the texts to redact are made of: an email address, a phone
\* number, a URL, digits (three pieces make a long number), pieces of an
\* email address, and a placeholder
Fragments ==
  {T_email, T_phone, T_url, T_digits, T_space, T_at, T_tld, REDACTED_PHONE}

RECURSIVE JoinAll(_)
JoinAll(parts) == IF parts = <<>> THEN <<>> ELSE Head(parts) \o JoinAll(Tail(parts))

RedactTexts == {JoinAll(parts) : parts \in SeqsUpTo(Fragments, MaxFragments)}

\* texts holding an email address, a dash-separated phone number, a
\* standalone run of eight digits and a URL
AllCategoryTexts ==
  {JoinAll(<<T_email, T_space, T_phone, T_space, T_number, T_space, T_url>>),
   JoinAll(<<T_number, T_space, T_url, T_space, T_email, T_space, T_phone>>)}

MaxLabels == 2
MaxWords == 6

\* contents for is_blocked_task: a phrase at the start, in the middle, inside
\* a word, padded, in upper case; near misses; no phrase
BlockedContents ==
  {<<>>, <<"x">>, <<"W", "a", "i", "t", "i", "n", "g", " ", "F", "o", "r", " ", "b", "o", "b">>, <<"a", " ", "S", "T", "U", "C", "K", " ", "b">>, <<" ", " ", "p", "e", "n", "d", "i", "n", "g", " ">>, <<"f", "o", "l", "l", "o", "w", "-", "u", "p">>, <<"u", "n", "b", "l", "o", "c", "k", "e", "d">>, <<"w", "a", "i", "t">>, <<"c", "a", "l", "l", " ", "F", "o", "l", "l", "o", "w", " ", "U", "p">>}

\* labels: members of the blocked set in other case or padded, near misses
BlockedLabelPool ==
  {<<"w", "a", "i", "t", "i", "n", "g">>, <<" ", "B", "l", "o", "c", "k", "e", "d", " ">>, <<"W", "A", "I", "T", "I", "N", "G", "-", "F", "O", "R">>, <<"f", "o", "l", "l", "o", "w", "-", "u", "p">>, <<"f", "o", "l", "l", "o", "w", " ", "u", "p">>, <<"w", "a", "i", "t">>, <<"x">>}

RECURSIVE Repeat(_, _)
Repeat(str, k) == IF k = 0 THEN <<>> ELSE str \o Repeat(str, k - 1)

\* contents for is_vague_task: a head, then up to MaxWords further words
VagueContents ==
  {pad \o head \o Repeat(sep \o <<"w">>, k) \o pad :
     pad \in {<<>>, <<" ", " ">>},
     head \in {<<>>, <<"p", "l", "a", "n">>, <<"F", "i", "g", "u", "r", "e", " ", "O", "u", "t">>, <<"x", "p", "l", "a", "n">>, <<"O", "r", "g", "a", "n", "i", "z", "e">>},
     sep \in {<<" ">>, <<" ", " ">>},
     k \in 0..MaxWords}

InitText ==
  /\ fs = <<>>
  /\ clock = 0
  /\ runs = 0
  /\ today = 10
  /\ ret = NoRet
  /\ \/ call \in {[fn |-> "redact_text", args |-> [text |-> text, redact_urls |-> u]] :
                    text \in RedactTexts \cup AllCategoryTexts, u \in BOOLEAN}
     \/ call \in {[fn |-> "is_blocked_task", args |-> [content |-> content, labels |-> labels]] :
                    content \in BlockedContents, labels \in SeqsUpTo(BlockedLabelPool, MaxLabels)}
     \/ call \in {[fn |-> "is_vague_task", args |-> [content |-> content]] :
                    content \in VagueContents}

RedactText ==
  /\ call.fn = "redact_text"
  /\ ret' = [fn |-> "redact_text", args |-> call.args,
             result |-> redact_text(call.args.text, call.args.redact_urls)]
  /\ call' = Idle
  /\ UNCHANGED <<fs, today, clock, runs>>

IsBlockedTask ==
  /\ call.fn = "is_blocked_task"
  /\ ret' = [fn |-> "is_blocked_task", args |-> call.args,
             result |-> is_blocked_task(call.args.content, call.args.labels)]
  /\ call' = Idle
  /\ UNCHANGED <<fs, today, clock, runs>>

IsVagueTask ==
  /\ call.fn = "is_vague_task"
  /\ ret' = [fn |-> "is_vague_task", args |-> call.args,
             result |-> is_vague_task(call.args.content)]
  /\ call' = Idle
  /\ UNCHANGED <<fs, today, clock, runs>>

NextText ==
  \/ RedactText
  \/ IsBlockedTask
  \/ IsVagueTask

SpecText == InitText /\ [][NextText]_vars

\* the patterns redact_text applies, in order
C11_Applied(redact_urls) ==
  IF redact_urls THEN <<EMAIL_RE, PHONE_RE, LONG_NUMBER_RE, URL_RE>>
  ELSE <<EMAIL_RE, PHONE_RE, LONG_NUMBER_RE>>

\* C11: redaction is idempotent: redacting the output of redact_text again,
\* with the same redact_urls, gives the same text, and the output holds no
\* match of any of the patterns that were applied.
C11_Idempotent ==
  ret.fn = "redact_text" =>
    /\ redact_text(ret.result, ret.args.redact_urls) = ret.result
    /\ \A i \in DOMAIN C11_Applied(ret.args.redact_urls) :
         re_search(C11_Applied(ret.args.redact_urls)[i], ret.result, 0) = None

\* digits before a placeholder and a phone number right after it: the output
\* has a placeholder from the input next to one that redaction produced
C11_Witness ==
  /\ ret.fn = "redact_text"
  /\ ret.args.text = JoinAll(<<T_digits, REDACTED_PHONE, T_phone>>)
  /\ ret.result = JoinAll(<<T_digits, REDACTED_PHONE, REDACTED_PHONE>>)

\* C12: each of the four categories yields its own placeholder: the output
\* for a text holding an email address, a dash-separated phone number, a
\* standalone run of eight digits and a URL contains [REDACTED_EMAIL],
\* [REDACTED_PHONE], [REDACTED_NUMBER] and [REDACTED_URL].
C12_FourPlaceholders ==
  (ret.fn = "redact_text" /\ ret.args.text \in AllCategoryTexts /\ ret.args.redact_urls) =>
    /\ contains(ret.result, REDACTED_EMAIL)
    /\ contains(ret.result, REDACTED_PHONE)
    /\ contains(ret.result, REDACTED_NUMBER)
    /\ contains(ret.result, REDACTED_URL)

\* str.upper() and the reversed list, for the inputs that C13 compares
C13_Upper(str) ==
  [i \in DOMAIN str |->
     IF str[i] \in Range(LowerCase)
     THEN UpperCase[CHOOSE k \in DOMAIN LowerCase : LowerCase[k] = str[i]]
     ELSE str[i]]
C13_Reverse(list) == [i \in DOMAIN list |-> list[Len(list) + 1 - i]]

C13_Phrases == {<<"w", "a", "i", "t", "i", "n", "g", " ", "f", "o", "r">>, <<"f", "o", "l", "l", "o", "w", " ", "u", "p">>, <<"b", "l", "o", "c", "k", "e", "d">>, <<"s", "t", "u", "c", "k">>, <<"p", "e", "n", "d", "i", "n", "g">>}
C13_Labels == {<<"w", "a", "i", "t", "i", "n", "g">>, <<"b", "l", "o", "c", "k", "e", "d">>, <<"w", "a", "i", "t", "i", "n", "g", "-", "f", "o", "r">>, <<"f", "o", "l", "l", "o", "w", "-", "u", "p">>}

\* C13: is_blocked_task(content, labels) is true exactly when the trimmed,
\* lower-cased content holds one of the five phrases somewhere, or a trimmed,
\* lower-cased label is one of the four blocked labels; upper-casing the
\* content and the labels and reversing the labels does not change it.
C13_IsBlocked ==
  ret.fn = "is_blocked_task" =>
    LET normalized == lower(strip(ret.args.content))
        labels == ret.args.labels
    IN /\ ret.result =
            (\/ \E phrase \in C13_Phrases : \E i \in 1..Len(normalized) :
                  /\ i + Len(phrase) - 1 <= Len(normalized)
                  /\ SubSeq(normalized, i, i + Len(phrase) - 1) = phrase
             \/ \E k \in DOMAIN labels : lower(strip(labels[k])) \in C13_Labels)
       /\ ret.result =
            is_blocked_task(C13_Upper(ret.args.content),
                            C13_Reverse([k \in DOMAIN labels |-> C13_Upper(labels[k])]))

\* a phrase in the middle of upper-case content, no blocked label: blocked
C13_Witness ==
  /\ ret.fn = "is_blocked_task"
  /\ ret.args.content = <<"a", " ", "S", "T", "U", "C", "K", " ", "b">>
  /\ ret.args.labels = <<<<"x">>, <<"f", "o", "l", "l", "o", "w", " ", "u", "p">>>>
  /\ ret.result = TRUE

\* the number of words of a text: its maximal runs of non-space characters
C14_Words(str) ==
  Cardinality({i \in DOMAIN str : str[i] # " " /\ (i = Len(str) \/ str[i + 1] = " ")})

C14_Prefixes == {<<"p", "l", "a", "n">>, <<"f", "i", "g", "u", "r", "e", " ", "o", "u", "t">>, <<"d", "e", "a", "l", " ", "w", "i", "t", "h">>, <<"w", "o", "r", "k", " ", "o", "n">>, <<"o", "r", "g", "a", "n", "i", "z", "e">>, <<"l", "o", "o", "k", " ", "i", "n", "t", "o">>, <<"t", "h", "i", "n", "k", " ", "a", "b", "o", "u", "t">>}

\* C14: is_vague_task(content) is true exactly when the trimmed, lower-cased
\* content is non-empty, has at most 6 words and starts with one of the seven
\* prefixes; it is false for more than 6 words and for empty or
\* whitespace-only content.
C14_IsVague ==
  ret.fn = "is_vague_task" =>
    LET normalized == lower(strip(ret.args.content))
    IN /\ ret.result =
            (/\ normalized # <<>>
             /\ C14_Words(normalized) <= 6
             /\ \E prefix \in C14_Prefixes :
                  /\ Len(prefix) <= Len(normalized)
                  /\ \A i \in DOMAIN prefix : normalized[i] = prefix[i])
       /\ C14_Words(ret.args.content) > 6 => ret.result = FALSE
       /\ (\A i \in DOMAIN ret.args.content : ret.args.content[i] = " ") => ret.result = FALSE

\* "plan" followed by six more words: seven words, not vague
C14_Witness ==
  /\ ret.fn = "is_vague_task"
  /\ ret.args.content = <<"p", "l", "a", "n">> \o Repeat(<<" ", "w">>, 6)
  /\ ret.result = FALSE

\* "Figure Out" followed by four more words, padded: six words, vague
C14_WitnessVague ==
  /\ ret.fn = "is_vague_task"
  /\ ret.args.content = <<" ", " ">> \o <<"F", "i", "g", "u", "r", "e", " ", "O", "u", "t">> \o Repeat(<<" ", " ", "w">>, 4) \o <<" ", " ">>
  /\ ret.result = TRUE

(***************************************************************************)
(* The API client (todoist_client.py).  A response is its status code, its *)
(* Retry-After header and its body; a request may also fail to produce a   *)
(* response at all (httpx.TransportError).                                 *)
(***************************************************************************)
MAX_ATTEMPTS == 5

\* a header value: absent, the empty string, a number of seconds, or a text
\* that is not a number (an HTTP date)
Header(kind, seconds) == [kind |-> kind, seconds |-> seconds]
NoHeader == Header("absent", 0)
EmptyHeader == Header("empty", 0)
Seconds(n) == Header("seconds", n)
DateHeader == Header("date", 0)

Response(status, retry_after, payload) ==
  [status |-> status, retry_after |-> retry_after, payload |-> payload]

\* JSON values of a body, tagged with their Python type
JList(items) == [t |-> "list", v |-> items]
JStr(text) == [t |-> "str", v |-> text]
JNull == [t |-> "null", v |-> <<>>]
JDict(fields) == [t |-> "dict", v |-> fields]
\* a body that is not JSON: response.json() raises
NotJson == [t |-> "invalid", v |-> <<>>]

\* bool(value) of a JSON value
Truthy(value) ==
  CASE value.t = "list" -> value.v # <<>>
    [] value.t = "str" -> value.v # ""
    [] value.t = "dict" -> DOMAIN value.v # {}
    [] OTHER -> FALSE

\* payload.get(key)
JGet(payload, key) == IF key \in DOMAIN payload.v THEN payload.v[key] ELSE JNull

\* a or b or c
Or3(a, b, c) == IF Truthy(a) THEN a ELSE IF Truthy(b) THEN b ELSE c

\* todoist_client.py lines 25-26: the wait after a 429, or None when
\* float(retry_after) raises ValueError
retry_wait(retry_after, backoff) ==
  IF retry_after.kind \in {"absent", "empty"} THEN Some(backoff)
  ELSE IF retry_after.kind = "seconds" THEN Some(retry_after.seconds)
  ELSE None

\* the locals of a running _request; received holds the responses so far,
\* the last of which is the local variable response
RequestFrame(attempt, backoff, sent, waits, received) ==
  [fn |-> "_request", attempt |-> attempt, backoff |-> backoff, sent |-> sent,
   waits |-> waits, received |-> received]

\* how a call of _request ended: the response it returned, or the exception
\* it raised; with the requests it sent, the waits it slept and the
\* responses it received
RequestEnd(outcome, response, error, sent, waits, received) ==
  [fn |-> "_request", outcome |-> outcome, response |-> response, error |-> error,
   sent |-> sent, waits |-> waits, received |-> received]

\* todoist_client.py lines 21-28: one pass of the loop of _request; the
\* server answers with response
RequestAttempt(response) ==
  /\ call.fn = "_request"
  /\ call.attempt < MAX_ATTEMPTS
  /\ IF response.status # 429
     THEN /\ ret' = RequestEnd("return", Some(response), "", call.sent + 1, call.waits,
                               Append(call.received, response))
          /\ call' = Idle
     ELSE IF retry_wait(response.retry_after, call.backoff) = None
          THEN /\ ret' = RequestEnd("raise", None, "ValueError", call.sent + 1, call.waits,
                                    Append(call.received, response))
               /\ call' = Idle
          ELSE /\ call' = RequestFrame(call.attempt + 1, call.backoff * 2, call.sent + 1,
                                       Append(call.waits,
                                              Get(retry_wait(response.retry_after,
                                                             call.backoff))),
                                       Append(call.received, response))
               /\ ret' = ret
  /\ UNCHANGED <<fs, today, clock, runs>>

\* todoist_client.py line 22: client.request raises (no response)
RequestFails ==
  /\ call.fn = "_request"
  /\ call.attempt < MAX_ATTEMPTS
  /\ ret' = RequestEnd("raise", None, "TransportError", call.sent + 1, call.waits,
                       call.received)
  /\ call' = Idle
  /\ UNCHANGED <<fs, today, clock, runs>>

\* todoist_client.py line 29: the loop is exhausted, the last response is returned
RequestReturnLast ==
  /\ call.fn = "_request"
  /\ call.attempt = MAX_ATTEMPTS
  /\ ret' = RequestEnd("return", Some(call.received[Len(call.received)]), "", call.sent,
                       call.waits, call.received)
  /\ call' = Idle
  /\ UNCHANGED <<fs, today, clock, runs>>

\* httpx.Response.raise_for_status: TRUE when it raises HTTPStatusError
raise_for_status(response) == response.status < 200 \/ response.status > 299

\* todoist_client.py lines 46-48: the items a page adds to collected
page_items_mutant(payload) ==
  IF JGet(payload, "items").t = "list" THEN JGet(payload, "items").v ELSE <<>>

page_items(payload) ==
  IF Or3(JGet(payload, "items"), JGet(payload, "results"), JGet(payload, "data")).t = "list"
  THEN Or3(JGet(payload, "items"), JGet(payload, "results"), JGet(payload, "data")).v
  ELSE <<>>

\* todoist_client.py line 49: payload.get("next_cursor") or payload.get("cursor")
next_cursor(payload) ==
  IF Truthy(JGet(payload, "next_cursor")) THEN JGet(payload, "next_cursor")
  ELSE JGet(payload, "cursor")

PaginatedFrame(collected, cursor, params, requests, pages) ==
  [fn |-> "_get_paginated", collected |-> collected, cursor |-> cursor,
   params |-> params, requests |-> requests, pages |-> pages]

\* how a call of _get_paginated ended: the list it returned, or the exception;
\* with the cursor parameter of every request and the response of every page
PaginatedEnd(outcome, result, error, requests, pages) ==
  [fn |-> "_get_paginated", outcome |-> outcome, result |-> result, error |-> error,
   requests |-> requests, pages |-> pages]

\* the cursor parameter of the next request (todoist_client.py lines 36-37)
next_params(frame) == IF Truthy(frame.cursor) THEN Some(frame.cursor.v) ELSE frame.params

\* todoist_client.py lines 39-52, after _request returned response
get_paginated_page(frame, response, requests, pages) ==
  IF raise_for_status(response)
  THEN [call |-> Idle,
        ret |-> PaginatedEnd("raise", None, "HTTPStatusError", requests, pages)]
  ELSE IF response.payload.t = "invalid"
  THEN [call |-> Idle, ret |-> PaginatedEnd("raise", None, "JSONDecodeError", requests, pages)]
  ELSE IF response.payload.t = "list"
  THEN [call |-> Idle,
        ret |-> PaginatedEnd("return", Some(frame.collected \o response.payload.v), "",
                             requests, pages)]
  ELSE IF response.payload.t # "dict"
  THEN [call |-> Idle, ret |-> PaginatedEnd("return", Some(frame.collected), "", requests, pages)]
  ELSE IF ~Truthy(next_cursor(response.payload))
  THEN [call |-> Idle,
        ret |-> PaginatedEnd("return", Some(frame.collected \o page_items(response.payload)),
                             "", requests, pages)]
  ELSE [call |-> PaginatedFrame(frame.collected \o page_items(response.payload),
                                next_cursor(response.payload), next_params(frame),
                                requests, pages),
        ret |-> ret]

(***************************************************************************)
(* SpecClient: one call of _request or of _get_paginated against a server  *)
(* that answers each request with any of a few responses.  The server      *)
(* sends at most MaxPages pages that carry a next cursor.  A started call  *)
(* keeps running (weak fairness): nothing in the code suspends it.         *)
(***************************************************************************)
MaxPages == 2

P_list == JList(<<"t1">>)
P_items_next == JDict(("items" :> JList(<<"t1", "t2">>)) @@ ("next_cursor" :> JStr("c1")))
P_results_cursor == JDict(("results" :> JList(<<"t3">>)) @@ ("cursor" :> JStr("c2")))
P_data_last == JDict(("data" :> JList(<<"t2">>)) @@ ("next_cursor" :> JNull))
P_items_last == JDict("items" :> JList(<<"t3">>))
P_empty_items == JDict(("items" :> JList(<<>>)) @@ ("results" :> JList(<<"t1">>)) @@ ("next_cursor" :> JStr("")))
P_text == JStr("ok")

\* what the server may answer to one HTTP request of _request
AttemptResponses ==
  {Response(200, NoHeader, P_list), Response(500, NoHeader, NotJson)}
    \cup {Response(429, h, NotJson) : h \in {NoHeader, EmptyHeader, Seconds(0), Seconds(3), DateHeader}}

\* the bodies of the pages the server may send
PagePayloads ==
  <<P_list, P_items_next, P_results_cursor, P_data_last, P_items_last, P_empty_items,
    P_text, NotJson>>

\* what _request may return to _get_paginated
PageResponses ==
  [i \in DOMAIN PagePayloads |-> Response(200, NoHeader, PagePayloads[i])]
    \o <<Response(204, NoHeader, NotJson), Response(404, NoHeader, NotJson),
         Response(429, NoHeader, NotJson), Response(500, NoHeader, P_text)>>

\* the exceptions _request may raise to _get_paginated
RequestErrors == {"ValueError", "TransportError"}

\* the response carries a next cursor: the loop of _get_paginated goes on
HasNextPage(response) ==
  /\ ~raise_for_status(response)
  /\ response.payload.t = "dict"
  /\ Truthy(next_cursor(response.payload))

InitClient ==
  /\ fs = <<>>
  /\ clock = 0
  /\ runs = 0
  /\ today = 10
  /\ ret = NoRet
  /\ call \in {RequestFrame(0, 1, 0, <<>>, <<>>),
               PaginatedFrame(<<>>, JNull, None, <<>>, <<>>)}

\* todoist_client.py lines 35-52: one pass of the loop of _get_paginated,
\* _request returning response
GetPaginatedPage(response) ==
  /\ call.fn = "_get_paginated"
  /\ HasNextPage(response) => Len(call.pages) < MaxPages
  /\ call' = get_paginated_page(call, response, Append(call.requests, next_params(call)),
                                Append(call.pages, response)).call
  /\ ret' = get_paginated_page(call, response, Append(call.requests, next_params(call)),
                               Append(call.pages, response)).ret
  /\ UNCHANGED <<fs, today, clock, runs>>

\* todoist_client.py line 38: _request raises, and so does _get_paginated
GetPaginatedFails(error) ==
  /\ call.fn = "_get_paginated"
  /\ ret' = PaginatedEnd("raise", None, error, Append(call.requests, next_params(call)),
                         call.pages)
  /\ call' = Idle
  /\ UNCHANGED <<fs, today, clock, runs>>

NextClient ==
  \/ \E response \in AttemptResponses : RequestAttempt(response)
  \/ RequestFails
  \/ RequestReturnLast
  \/ \E i \in DOMAIN PageResponses : GetPaginatedPage(PageResponses[i])
  \/ \E error \in RequestErrors : GetPaginatedFails(error)

SpecClient == InitClient /\ [][NextClient]_vars /\ WF_vars(NextClient)

\* the Retry-After header of a response carries a value
C15_Given(response) == response.retry_after.kind \notin {"absent", "empty"}

\* the wait the claim prescribes after the k-th response
C15_WaitOf(received, k) ==
  IF C15_Given(received[k]) THEN received[k].retry_after.seconds ELSE 2 ^ (k - 1)

\* every response but the last was a 429 and was followed by its wait
C15_Retried(received, waits, last) ==
  \A k \in 1..last :
    /\ received[k].status = 429
    /\ k \in DOMAIN waits
    /\ waits[k] = C15_WaitOf(received, k)

\* C15: one call of _request sends at most 5 HTTP requests; whenever the
\* server answers every request, the call returns the first response that
\* is not a 429 and sends nothing after it, or the fifth response when all
\* five are 429; after each 429 that is followed by another attempt it waits
\* the Retry-After value when the response carries one, otherwise 1 second
\* doubled once per earlier attempt.
C15_RetryCapped ==
  /\ call.fn = "_request" =>
       /\ call.sent <= 5
       /\ call.sent = Len(call.received)
       /\ C15_Retried(call.received, call.waits, Len(call.received))
  /\ (ret.fn = "_request" /\ ret.error # "TransportError") =>
       /\ ret.sent <= 5
       /\ ret.sent = Len(ret.received)
       /\ ret.outcome = "return"
       /\ ret.response = Some(ret.received[Len(ret.received)])
       /\ C15_Retried(ret.received, ret.waits, Len(ret.received) - 1)
       /\ ret.received[Len(ret.received)].status = 429 => Len(ret.received) = 5

\* the same statement for the calls in which every Retry-After value the
\* server sent was a number of seconds
C15_NumericRetryAfter ==
  (ret.fn = "_request" /\ \A k \in DOMAIN ret.received : ret.received[k].retry_after.kind # "date")
    => C15_RetryCapped

\* a call of _request ends
C15_Terminates == (call.fn = "_request") ~> (ret.fn = "_request")

\* a call that was answered 429 five times returned the fifth response
C15_Exhausted ==
  /\ ret.fn = "_request"
  /\ ret.outcome = "return"
  /\ ret.sent = 5
  /\ Get(ret.response).status = 429
  /\ ret.waits = <<1, 3, 4, 0, 16>>

\* the items a page carries: the elements of a bare list, or of the first
\* non-empty list among "items", "results" and "data"
C17_PageItems(payload) ==
  IF payload.t = "list" THEN payload.v
  ELSE IF payload.t # "dict" THEN <<>>
  ELSE IF \E key \in {"items", "results", "data"} :
            JGet(payload, key).t = "list" /\ JGet(payload, key).v # <<>>
  THEN LET key == CHOOSE key \in {"items", "results", "data"} :
                    /\ JGet(payload, key).t = "list" /\ JGet(payload, key).v # <<>>
                    /\ \A other \in {"items", "results", "data"} :
                         (JGet(payload, other).t = "list" /\ JGet(payload, other).v # <<>>)
                           => (key = "items" \/ other = "data" \/ key = other)
       IN JGet(payload, key).v
  ELSE <<>>

RECURSIVE C17_Concat(_)
\* the items of the pages, in the order the pages were fetched
C17_Concat(pages) ==
  IF pages = <<>> THEN <<>>
  ELSE C17_Concat(SubSeq(pages, 1, Len(pages) - 1)) \o C17_PageItems(pages[Len(pages)].payload)

\* request k carried the cursor of page k-1, and the first carried none
C17_Chained(requests, pages) ==
  \A k \in DOMAIN requests :
    IF k = 1 THEN requests[k] = None
    ELSE /\ k - 1 \in DOMAIN pages
         /\ requests[k] = Some(next_cursor(pages[k - 1].payload).v)

C17_Safe ==
  /\ call.fn = "_get_paginated" =>
       /\ call.collected = C17_Concat(call.pages)
       /\ C17_Chained(call.requests, call.pages)
  /\ ret.fn = "_get_paginated" =>
       /\ C17_Chained(ret.requests, ret.pages)
       /\ ret.outcome = "return" =>
            /\ ret.result = Some(C17_Concat(ret.pages))
            /\ Len(ret.requests) = Len(ret.pages)
            /\ \A k \in DOMAIN ret.pages : ~raise_for_status(ret.pages[k])
            /\ ~HasNextPage(ret.pages[Len(ret.pages)])
       /\ (\E k \in DOMAIN ret.pages : raise_for_status(ret.pages[k])) =>
            /\ ret.outcome = "raise"
            /\ ret.result = None

\* C17: a call of _get_paginated to a server that eventually answers with a
\* bare list or a page without next cursor ends; when it returns, the result
\* is the concatenation, in request order, of the items of every page it
\* fetched, the first request carried no cursor and each later one the cursor
\* of the page before it; when a page's response is not 2xx the call raises
\* and returns no list.
C17_Pagination ==
  /\ []C17_Safe
  /\ (call.fn = "_get_paginated") ~> (ret.fn = "_get_paginated")

\* a call that fetched three pages, taking items from "items", "results"
\* and "data", returned all of them
C17_Witness ==
  /\ ret.fn = "_get_paginated"
  /\ ret.outcome = "return"
  /\ ret.requests = <<None, Some("c1"), Some("c2")>>
  /\ ret.result = Some(<<"t1", "t2", "t3", "t2">>)

\* a call whose second page was answered 404 raised
C17_WitnessRaise ==
  /\ ret.fn = "_get_paginated"
  /\ ret.outcome = "raise"
  /\ Len(ret.pages) = 2
  /\ ret.pages[2].status = 404

(***************************************************************************)
(* SpecCrash: write_snapshot file by file.  The process may stop between   *)
(* two writes (a kill, a full disk, an exception of a report builder);     *)
(* later, diff_snapshots is called on the directories that exist.          *)
(***************************************************************************)
MaxWrites == 2

\* snapshot.py lines 247-267: the files in the order write_snapshot writes them
write_order(label_filename, due_window_days) ==
  <<"meta.json", "tasks.json", "projects.json", label_filename, "local_notes.json",
    "SUMMARY.md", "PROJECTS.md", "TASKS_TOP.md">>
    \o (IF due_window_days = None THEN <<>> ELSE <<"tasks_due_window.json">>)

\* the locals of a running write_snapshot: the files it is to write, the
\* position in write_order it has reached and the result it will return
WriteFrame(snapshot_path, files, order, next, result) ==
  [fn |-> "write_snapshot", snapshot_path |-> snapshot_path, files |-> files,
   order |-> order, next |-> next, result |-> result]

\* the arguments of write_snapshot: what build_snapshot_from_data made of a
\* payload, and the filters
CrashInputs ==
  {[built |-> build_snapshot_from_data(TasksA, BuildProjects, Some(ApiLabels), FALSE, NoFilters),
    filters |-> NoFilters],
   [built |-> build_snapshot_from_data(TasksB, BuildProjects, Some(ApiLabels), FALSE, ExcludeAlpha),
    filters |-> ExcludeAlpha]}

CrashPaths == {strftime(m) : m \in 0..(MaxWrites - 1)}

InitCrash ==
  /\ fs = <<>>
  /\ clock = 0
  /\ runs = 0
  /\ today = 10
  /\ call = Idle
  /\ ret = NoRet

\* snapshot.py lines 224-245: write_snapshot creates the directory
write_snapshot_start(timestamp, in, w) ==
  WriteFrame(timestamp, w.files, write_order("labels.json", in.filters.due_window_days), 1,
             w.result)

WriteSnapshotStart(timestamp, in) ==
  /\ call = Idle
  /\ timestamp \notin DOMAIN fs
  /\ fs' = StoreWritten(fs, timestamp, <<>>)
  /\ call' = write_snapshot_start(timestamp, in,
                                  write_snapshot(timestamp, in.built.tasks, in.built.projects,
                                                 in.built.labels, FALSE, in.filters,
                                                 in.built.warnings, "labels.json",
                                                 in.filters.due_window_days, today))
  /\ UNCHANGED <<today, clock, runs, ret>>

\* snapshot.py lines 247-267: the next file is written
WriteSnapshotFile ==
  /\ call.fn = "write_snapshot"
  /\ call.next <= Len(call.order)
  /\ fs' = StoreWritten(fs, call.snapshot_path,
                        [n \in {call.order[call.next]} |-> call.files[n]])
  /\ call' = [call EXCEPT !.next = @ + 1]
  /\ UNCHANGED <<today, clock, runs, ret>>

\* snapshot.py line 269
WriteSnapshotReturn ==
  /\ call.fn = "write_snapshot"
  /\ call.next > Len(call.order)
  /\ ret' = [fn |-> "write_snapshot", result |-> Some(call.result)]
  /\ call' = Idle
  /\ UNCHANGED <<fs, today, clock, runs>>

\* the process stops before the next file is written; what is on disk stays
WriteSnapshotInterrupted ==
  /\ call.fn = "write_snapshot"
  /\ call.next <= Len(call.order)
  /\ ret' = [fn |-> "write_snapshot", result |-> None]
  /\ call' = Idle
  /\ UNCHANGED <<fs, today, clock, runs>>

NextCrash ==
  \/ \E timestamp \in CrashPaths, in \in CrashInputs : WriteSnapshotStart(timestamp, in)
  \/ WriteSnapshotFile
  \/ WriteSnapshotReturn
  \/ WriteSnapshotInterrupted
  \/ \E c, p \in CrashPaths : DiffSnapshots(c, p)

SpecCrash == InitCrash /\ [][NextCrash]_vars

\* the files a complete snapshot directory holds, by its meta.json
C16_Expected(dir) ==
  Range(write_order("labels.json", fs[dir]["meta.json"].filters.due_window_days))

\* the directory exists and lacks a file of its snapshot
C16_Incomplete(dir) ==
  /\ dir \in DOMAIN fs
  /\ \/ "meta.json" \notin DOMAIN fs[dir]
     \/ ~(C16_Expected(dir) \subseteq DOMAIN fs[dir])

\* C16: a diff_snapshots call that names, as current or previous, a snapshot
\* directory in which an interrupted write_snapshot left files missing
\* returns no diff result.
C16_NoDiffFromIncomplete ==
  (/\ ret.fn = "diff_snapshots"
   /\ call = Idle
   /\ C16_Incomplete(ret.current_path) \/ C16_Incomplete(ret.previous_path))
    => ret.result = None

\* the same for directories in which tasks.json is among the missing files
C16_NoDiffWithoutTasks ==
  (/\ ret.fn = "diff_snapshots"
   /\ \E dir \in {ret.current_path, ret.previous_path} :
        dir \notin DOMAIN fs \/ "tasks.json" \notin DOMAIN fs[dir])
    => ret.result = None

====
